---- MODULE Spec2Model ----
(***************************************************************************)
(* Model of the survey application's job lifecycle (src/app.py): the       *)
(* submit handler, the avatar and plan background runners, the completion  *)
(* coordinator check_and_send_email, the notifier send_combined_email and  *)
(* the operator's delete handlers, over the three tables responses,        *)
(* avatars and vibe_plans.                                                 *)
(*                                                                         *)
(* Every SQL statement is one atomic step (the store serialises single     *)
(* statements); the submit handler and each runner thread interleave       *)
(* freely between their statements.                                        *)
(*                                                                         *)
(* Spec and LiveSpec are the lifecycle of the jobs of one response;        *)
(* PairSpec is the lifecycle of the jobs of two responses side by side;    *)
(* QuotaSpec and SerialQuotaSpec are the avatar quota over several submit  *)
(* requests of one email; CallSpec is generate_vibe_plan,                  *)
(* generate_avatar_prompt, check_and_send_email, send_combined_email, the  *)
(* try bodies of the two runners, and check_email followed by one submit   *)
(* request, each called on its own over its arguments and its provider's   *)
(* behaviours.                                                             *)
(***************************************************************************)
EXTENDS Integers, Sequences, FiniteSets, TLC

\* ------------------------------------------------------------------ bounds
\* Number of submit requests served in a behaviour.
MaxResponses == 1
\* Number of disturbances in a behaviour: store operations of background
\* threads that raise, and operator (admin) requests.
MaxDisturbances == 1
\* Quota specifications: submit requests served in a behaviour, after those
\* already served before it starts.
MaxSubmits == 2
\* The longest list of interest tags handed to generate_avatar_prompt.
MaxFuels == 3

\* --------------------------------------------------------- program constants
MAX_AVATARS_PER_EMAIL == 3

\* Python's None / SQL NULL for text columns and text arguments.
NULL == "NULL"
\* Python's None for the avatar_id argument (identifiers are 1, 2, ...).
NoId == 0

\* The fixed user-facing text generate_vibe_plan returns on failure.
VIBE_PLAN_ERROR_MESSAGE == "We couldn't generate your personalized plan at this time."
\* One key of PREGENERATED_PLANS and the HTML stored under it.
CannedKey == "Email & Calendar (Outlook, Gmail)"
PREGENERATED_PLANS == [k \in {CannedKey} |-> "<h3>canned plan</h3>"]
\* A wishlist text that is no key of PREGENERATED_PLANS.
CustomWishlist == "my own idea"
\* The provider's plan for it, when the provider answers with a valid plan.
GeneratedPlan == "<h3>generated plan</h3>"
\* The base64 image extracted from the image provider's response.
GeneratedImage == "base64-image"
\* str(e) of an exception caught by a runner's handler.
ExceptionText == "str(e)"

\* Values of the request form fields email, selfie_data and wishlist_app.  The
\* wishlist of a submit request is empty, blank or a text of the user's own: a
\* plan job for it can end in each way a plan job ends (the canned keys, whose
\* jobs can only complete, are among the calls of generate_plan_async on its own).
Emails == {"", "a@x.com"}
Selfies == {"", "data:image/jpeg;base64,AAAA"}
Wishlists == {"", " ", CustomWishlist}

RIDs == 1..MaxResponses
Kinds == {"avatar", "plan"}
Threads == RIDs \X Kinds
NoRequest == [email |-> "", selfie_data |-> "", wishlist_app |-> ""]
\* No function is being called on its own.
NoCall == [fn |-> "none"]

VARIABLES
    responses,      \* table responses: set of rows [id, email]
    avatars,        \* table avatars: set of rows
    vibe_plans,     \* table vibe_plans: set of rows
    next_id,        \* the SERIAL sequence of responses.id: ids handed out so far
    req,            \* req[r]: the form fields of the submit request that got id r
    spc,            \* spc[r]: position of that submit request in submit()
    pc,             \* pc[<<r, kind>>]: position of the runner thread of response r
    avatar,         \* avatar[t]: check_and_send_email's local `avatar` (a set: {} is None)
    notifier_calls, \* notifier_calls[r]: the calls of send_combined_email made for r
    handling,       \* handling[t]: the runner is inside its `except Exception` clause
    disturbances,   \* store faults raised and operator requests served so far
    fn_call,        \* a function called on its own: its name, arguments and environment
    fn_ret          \* what that call returned (a sequence: <<>> is not yet returned)

vars == <<responses, avatars, vibe_plans, next_id, req, spc, pc, avatar,
          notifier_calls, handling, disturbances, fn_call, fn_ret>>

\* The variables of the job lifecycle, and those of a function called on its own.
job_vars == <<responses, avatars, vibe_plans, next_id, req, spc, pc, avatar,
              notifier_calls, handling, disturbances>>
fn_vars == <<fn_call, fn_ret>>

\* ------------------------------------------------------------------ store
\* cur.fetchone() after a SELECT that matched `rows`: None, or one of the rows.
fetchone(rows) == IF rows = {} THEN {{}} ELSE {{x} : x \in rows}

\* Mutant: failed rows do not count against the quota.
get_avatar_count_unfailed(email) ==
    Cardinality({a \in avatars : a.email = email /\ a.status # "failed"})

\* SELECT COUNT(*) FROM avatars WHERE email = %s
get_avatar_count(email) == Cardinality({a \in avatars : a.email = email})

\* Mutant: the avatar is looked up by the email of the response.
select_avatar_by_email(response_id) ==
    {[id |-> a.id, status |-> a.status, image_data |-> a.image_data] :
        a \in {x \in avatars : \E y \in responses :
                                  y.id = response_id /\ y.email = x.email}}

\* SELECT id, status, image_data FROM avatars WHERE response_id = %s
select_avatar(response_id) ==
    {[id |-> a.id, status |-> a.status, image_data |-> a.image_data] :
        a \in {x \in avatars : x.response_id = response_id}}

\* SELECT id, status, plan_content FROM vibe_plans WHERE response_id = %s
select_plan(response_id) ==
    {[id |-> p.id, status |-> p.status, plan_content |-> p.plan_content] :
        p \in {x \in vibe_plans : x.response_id = response_id}}

\* UPDATE avatars SET image_data = %s, status = 'completed' WHERE id = %s
update_avatar_completed(avatar_id, image) ==
    {IF a.id = avatar_id
        THEN [a EXCEPT !.status = "completed", !.image_data = image]
        ELSE a : a \in avatars}

\* Mutant: the UPDATE has no WHERE clause.
update_avatar_failed_everywhere(avatar_id, msg) ==
    {[a EXCEPT !.status = "failed", !.error_message = msg] : a \in avatars}

\* UPDATE avatars SET status = 'failed', error_message = %s WHERE id = %s
update_avatar_failed(avatar_id, msg) ==
    {IF a.id = avatar_id
        THEN [a EXCEPT !.status = "failed", !.error_message = msg]
        ELSE a : a \in avatars}

\* UPDATE vibe_plans SET plan_content = %s, status = 'completed' WHERE id = %s
update_plan_completed(plan_id, content) ==
    {IF p.id = plan_id
        THEN [p EXCEPT !.status = "completed", !.plan_content = content]
        ELSE p : p \in vibe_plans}

\* Mutant: the text of the failure is stored as the plan of a completed job.
update_plan_failed_as_content(plan_id, msg) ==
    {IF p.id = plan_id
        THEN [p EXCEPT !.status = "completed", !.plan_content = msg]
        ELSE p : p \in vibe_plans}

\* Mutant: the UPDATE of the failed status is never committed.
update_plan_failed_uncommitted(plan_id, msg) == vibe_plans

\* UPDATE vibe_plans SET status = 'failed', error_message = %s WHERE id = %s
update_plan_failed(plan_id, msg) ==
    {IF p.id = plan_id
        THEN [p EXCEPT !.status = "failed", !.error_message = msg]
        ELSE p : p \in vibe_plans}

\* ------------------------------------------------------------------ init
JobInit ==
    /\ responses = {}
    /\ avatars = {}
    /\ vibe_plans = {}
    /\ next_id = 0
    /\ req = [r \in RIDs |-> NoRequest]
    /\ spc = [r \in RIDs |-> "idle"]
    /\ pc = [t \in Threads |-> "idle"]
    /\ avatar = [t \in Threads |-> {}]
    /\ notifier_calls = [r \in RIDs |-> <<>>]
    /\ handling = [t \in Threads |-> FALSE]
    /\ disturbances = 0

Init ==
    /\ JobInit
    /\ fn_call = NoCall
    /\ fn_ret = <<>>

\* ------------------------------------------------------------------ submit
\* `if email and selfie_data:` and `if email and wishlist_app:` of submit().
wants_avatar(q) == q.email # "" /\ q.selfie_data # ""
wants_plan(q) == q.email # "" /\ q.wishlist_app # ""

\* Mutant: the wishlist text is taken untrimmed.
strip_nothing(s) == s

\* str.strip() on the wishlist values of the model.
strip(s) == IF s = " " THEN "" ELSE s

\* submit(), up to the commit of INSERT INTO responses ... RETURNING id.
SubmitInsertResponse(email, selfie_data, wishlist_app) ==
    /\ next_id + 1 \in DOMAIN req
    /\ LET r == next_id + 1
           q == [email |-> email, selfie_data |-> selfie_data,
                 wishlist_app |-> strip(wishlist_app)]
       IN /\ next_id' = r
          /\ responses' = responses \cup {[id |-> r, email |-> email]}
          /\ req' = [req EXCEPT ![r] = q]
          /\ spc' = [spc EXCEPT ![r] =
                        IF wants_avatar(q) THEN "count_avatars"
                        ELSE IF wants_plan(q) THEN "insert_plan" ELSE "done"]
    /\ UNCHANGED <<avatars, vibe_plans, pc, avatar, notifier_calls,
                   handling, disturbances,
                   fn_vars>>

\* avatar_queued, as submit() hands it to the thanks page: set in the branch that
\* inserts the avatar row and starts its runner thread.
avatar_queued(r) == pc[<<r, "avatar">>] # "idle"
\* plan_queued, likewise, set in the branch that inserts the plan row.
plan_queued(r) == pc[<<r, "plan">>] # "idle"

\* Mutant: the quota test admits a request when the count equals the ceiling.
SubmitCountAvatars_inclusive(r) ==
    /\ spc[r] = "count_avatars"
    /\ spc' = [spc EXCEPT ![r] =
                  IF get_avatar_count(req[r].email) <= MAX_AVATARS_PER_EMAIL
                  THEN "insert_avatar"
                  ELSE IF wants_plan(req[r]) THEN "insert_plan" ELSE "done"]
    /\ UNCHANGED <<responses, avatars, vibe_plans, next_id, req, pc, avatar,
                   notifier_calls, handling, disturbances, fn_vars>>

\* avatar_count = get_avatar_count(email); if avatar_count < MAX_AVATARS_PER_EMAIL:
SubmitCountAvatars(r) ==
    /\ spc[r] = "count_avatars"
    /\ spc' = [spc EXCEPT ![r] =
                  IF get_avatar_count(req[r].email) < MAX_AVATARS_PER_EMAIL
                  THEN "insert_avatar"
                  ELSE IF wants_plan(req[r]) THEN "insert_plan" ELSE "done"]
    /\ UNCHANGED <<responses, avatars, vibe_plans, next_id, req, pc, avatar,
                   notifier_calls, handling, disturbances,
                   fn_vars>>

\* INSERT INTO avatars (... 'pending'), commit, thread.start().  The row's
\* response_id REFERENCES responses(id): with the response row gone the INSERT
\* raises and the request ends in an error.
SubmitInsertAvatar(r) ==
    /\ spc[r] = "insert_avatar"
    /\ IF \E x \in responses : x.id = r
       THEN /\ avatars' = avatars \cup
                   {[id |-> r, email |-> req[r].email, response_id |-> r,
                     status |-> "pending", image_data |-> NULL,
                     error_message |-> NULL]}
            /\ pc' = [pc EXCEPT ![<<r, "avatar">>] = "run"]
            /\ spc' = [spc EXCEPT ![r] =
                          IF wants_plan(req[r]) THEN "insert_plan" ELSE "done"]
       ELSE /\ spc' = [spc EXCEPT ![r] = "error"]
            /\ UNCHANGED <<avatars, pc>>
    /\ UNCHANGED <<responses, vibe_plans, next_id, req, avatar,
                   notifier_calls, handling, disturbances,
                   fn_vars>>

\* INSERT INTO vibe_plans (... 'pending'), commit, thread.start().
SubmitInsertPlan(r) ==
    /\ spc[r] = "insert_plan"
    /\ IF \E x \in responses : x.id = r
       THEN /\ vibe_plans' = vibe_plans \cup
                   {[id |-> r, email |-> req[r].email, response_id |-> r,
                     wishlist_input |-> req[r].wishlist_app, status |-> "pending",
                     plan_content |-> NULL, error_message |-> NULL]}
            /\ pc' = [pc EXCEPT ![<<r, "plan">>] = "run"]
            /\ spc' = [spc EXCEPT ![r] = "done"]
       ELSE /\ spc' = [spc EXCEPT ![r] = "error"]
            /\ UNCHANGED <<vibe_plans, pc>>
    /\ UNCHANGED <<responses, avatars, next_id, req, avatar,
                   notifier_calls, handling, disturbances,
                   fn_vars>>

\* ---------------------------------------------------------- text provider
\* A text the text provider returns: its content once trimmed (body), the number
\* of characters of that content (length), the number of whitespace characters
\* around it (padding), and whether the content holds the marker '<h3>'.
Text(body, length, padding, h3) ==
    [body |-> body, length |-> length, padding |-> padding, h3 |-> h3]
\* len(text) and text.strip()
len(text) == text.length + text.padding
text_strip(text) == [text EXCEPT !.padding = 0]
NoText == Text("", 0, 0, FALSE)

\* What client.messages.create does: it returns a text, or raises
\* anthropic.APITimeoutError, anthropic.APIError or another exception.
ProviderFailures == {"timeout", "api_error", "exception"}
Reply(kind, text) == [kind |-> kind, text |-> text]
Paddings == {0, 2}

\* The least length of a plan generate_vibe_plan accepts.
MIN_PLAN_LENGTH == 200
PlanLengths == {MIN_PLAN_LENGTH - 1, MIN_PLAN_LENGTH, MIN_PLAN_LENGTH + 1}
\* A provider text without section headers.
PlainPlan == "a plan in plain text"
PlanTexts ==
    {Text("", 0, p, FALSE) : p \in Paddings}
    \cup {Text(GeneratedPlan, n, p, TRUE) : n \in PlanLengths, p \in Paddings}
    \cup {Text(PlainPlan, n, p, FALSE) : n \in PlanLengths, p \in Paddings}
PlanReplies ==
    {Reply("text", t) : t \in PlanTexts} \cup {Reply(k, NoText) : k \in ProviderFailures}

\* Mutant: the provider's text is measured untrimmed.
generate_vibe_plan_untrimmed(client, wishlist_app, reply) ==
    IF wishlist_app = NULL \/ strip(wishlist_app) = "" \/ ~client \/ reply.kind # "text"
    THEN <<VIBE_PLAN_ERROR_MESSAGE, FALSE>>
    ELSE IF len(reply.text) < MIN_PLAN_LENGTH \/ ~reply.text.h3
         THEN <<VIBE_PLAN_ERROR_MESSAGE, FALSE>>
         ELSE <<reply.text.body, TRUE>>

\* generate_vibe_plan(wishlist_app) -> (plan_content, success), with the client
\* get_claude_client() returns (FALSE: no credential configured) and what the
\* provider does when it is called.
generate_vibe_plan(client, wishlist_app, reply) ==
    IF wishlist_app = NULL \/ strip(wishlist_app) = ""
    THEN <<VIBE_PLAN_ERROR_MESSAGE, FALSE>>
    ELSE IF ~client THEN <<VIBE_PLAN_ERROR_MESSAGE, FALSE>>
    ELSE IF reply.kind # "text" THEN <<VIBE_PLAN_ERROR_MESSAGE, FALSE>>
    ELSE LET plan == text_strip(reply.text) IN
         IF len(plan) < MIN_PLAN_LENGTH \/ ~plan.h3
         THEN <<VIBE_PLAN_ERROR_MESSAGE, FALSE>>
         ELSE <<plan.body, TRUE>>

\* The calls of client.messages.create generate_vibe_plan makes: one, when it
\* gets past its two early returns.
vibe_plan_provider_calls(client, wishlist_app) ==
    IF wishlist_app = NULL \/ strip(wishlist_app) = "" \/ ~client THEN 0 ELSE 1

\* Mutant: the canned plans are not consulted.
generate_plan_try_uncanned(client, wishlist_app, reply) ==
    generate_vibe_plan(client, wishlist_app, reply)

\* generate_plan_async, from `if wishlist_app in PREGENERATED_PLANS` to the
\* values of plan_content and success.
generate_plan_try(client, wishlist_app, reply) ==
    IF wishlist_app \in DOMAIN PREGENERATED_PLANS
    THEN <<PREGENERATED_PLANS[wishlist_app], TRUE>>
    ELSE generate_vibe_plan(client, wishlist_app, reply)

\* The calls of the text provider generate_plan_async makes.
plan_provider_calls(client, wishlist_app) ==
    IF wishlist_app \in DOMAIN PREGENERATED_PLANS THEN 0
    ELSE vibe_plan_provider_calls(client, wishlist_app)

\* Mutant: the row is marked completed whatever the value of success.
plan_job_outcome_ignoring_success(client, wishlist_app, reply) ==
    [status |-> "completed",
     plan_content |-> generate_plan_try(client, wishlist_app, reply)[1],
     error_message |-> NULL,
     provider_calls |-> plan_provider_calls(client, wishlist_app)]

\* What the try body of generate_plan_async writes to its row with its UPDATE.
plan_job_outcome(client, wishlist_app, reply) ==
    LET result == generate_plan_try(client, wishlist_app, reply) IN
    [status |-> IF result[2] THEN "completed" ELSE "failed",
     plan_content |-> IF result[2] THEN result[1] ELSE NULL,
     error_message |-> IF result[2] THEN NULL ELSE result[1],
     provider_calls |-> plan_provider_calls(client, wishlist_app)]

\* For each wishlist text a plan job can hold, the results of the try body over
\* every configuration and every behaviour of the provider.
PlanTryResults ==
    [w \in {strip(x) : x \in Wishlists} \cup DOMAIN PREGENERATED_PLANS |->
        {generate_plan_try(client, w, reply) : client \in BOOLEAN, reply \in PlanReplies}]

\* ------------------------------------------------------------ avatar prompt
FALLBACK_AVATAR_PROMPT == "Transform this selfie into a stylized digital art portrait of a mythical hero."
\* The keys of UNIVERSE_VISUALS, FUEL_VISUALS and ELEMENT_VISUALS.
UNIVERSE_VISUALS == {"scifi", "fantasy", "cyberpunk", "retro", "nature", "steampunk",
                     "cosmic", "postapoc", "noir", "underwater"}
FUEL_VISUALS == {"gaming", "music", "sports", "coffee", "code", "movies", "travel",
                 "art", "fitness", "books"}
ELEMENT_VISUALS == {"fire", "lightning", "ice", "earth", "digital", "shadow", "cosmic",
                    "crystal"}
\* The number of interest tags generate_avatar_prompt asks for, and the least
\* length of a prompt it accepts.
REQUIRED_FUELS == 2
MIN_PROMPT_LENGTH == 50

\* Values of the arguments universe, fuels and element: members of the
\* enumerations and others.  A value of fuels has a Python type and items.
Universes == {"cyberpunk", "noir", "atlantis"}
Elements == {"lightning", "cosmic", "plasma"}
FuelTags == {"gaming", "knitting"}
FuelsValue(type, items) == [type |-> type, items |-> items]
FuelsValues ==
    {FuelsValue("list", items) : items \in UNION {[1..n -> FuelTags] : n \in 0..MaxFuels}}
    \cup {FuelsValue("str", <<"g", "o">>), FuelsValue("NoneType", <<>>)}

\* The provider's text for a prompt.
GeneratedPrompt == "a stylized netrunner portrait with electric sparks"
PromptLengths == {MIN_PROMPT_LENGTH - 1, MIN_PROMPT_LENGTH, MIN_PROMPT_LENGTH + 1}
PromptTexts ==
    {Text("", 0, p, FALSE) : p \in Paddings}
    \cup {Text(GeneratedPrompt, n, p, FALSE) : n \in PromptLengths, p \in Paddings}
PromptReplies ==
    {Reply("text", t) : t \in PromptTexts} \cup {Reply(k, NoText) : k \in ProviderFailures}

\* Mutant: the element is not validated.
generate_avatar_prompt_any_element(client, universe, fuels, element, reply) ==
    IF \/ ~client
       \/ universe \notin UNIVERSE_VISUALS
       \/ fuels.type # "list" \/ Len(fuels.items) # REQUIRED_FUELS
       \/ reply.kind # "text"
    THEN FALLBACK_AVATAR_PROMPT
    ELSE IF len(text_strip(reply.text)) < MIN_PROMPT_LENGTH
         THEN FALLBACK_AVATAR_PROMPT
         ELSE reply.text.body

\* Mutant: a tag that is no key of FUEL_VISUALS is rejected.
generate_avatar_prompt_validating_tags(client, universe, fuels, element, reply) ==
    IF \/ ~client
       \/ universe \notin UNIVERSE_VISUALS
       \/ fuels.type # "list" \/ Len(fuels.items) # REQUIRED_FUELS
       \/ \E i \in DOMAIN fuels.items : fuels.items[i] \notin FUEL_VISUALS
       \/ element \notin ELEMENT_VISUALS
       \/ reply.kind # "text"
    THEN FALLBACK_AVATAR_PROMPT
    ELSE IF len(text_strip(reply.text)) < MIN_PROMPT_LENGTH
         THEN FALLBACK_AVATAR_PROMPT
         ELSE reply.text.body

\* generate_avatar_prompt(universe, fuels, element) -> prompt, with the client
\* get_claude_client() returns and what the provider does when it is called.
generate_avatar_prompt(client, universe, fuels, element, reply) ==
    IF ~client THEN FALLBACK_AVATAR_PROMPT
    ELSE IF universe \notin UNIVERSE_VISUALS THEN FALLBACK_AVATAR_PROMPT
    ELSE IF fuels.type # "list" \/ Len(fuels.items) # REQUIRED_FUELS
         THEN FALLBACK_AVATAR_PROMPT
    ELSE IF element \notin ELEMENT_VISUALS THEN FALLBACK_AVATAR_PROMPT
    ELSE IF reply.kind # "text" THEN FALLBACK_AVATAR_PROMPT
    ELSE LET prompt == text_strip(reply.text) IN
         IF len(prompt) < MIN_PROMPT_LENGTH
         THEN FALLBACK_AVATAR_PROMPT
         ELSE prompt.body

\* ---------------------------------------------------------- image provider
MAX_RETRIES == 3
\* seconds
BASE_DELAY == 2
\* RETRYABLE_ERRORS, and str(api_error) as the set of the words it is made of:
\* `err in error_str` holds when err is one of them.
RETRYABLE_ERRORS == {"503", "UNAVAILABLE", "overloaded", "429", "RESOURCE_EXHAUSTED"}
ErrorStrings == {{"503", "UNAVAILABLE"}, {"429", "RESOURCE_EXHAUSTED"},
                 {"400", "INVALID_ARGUMENT"}}

\* The bytes of an image the provider generates, and what
\* base64.b64encode(...).decode('utf-8') makes of them.
ImageBytes == {"png-A", "png-B"}
b64encode(data) == IF data = "png-A" THEN GeneratedImage ELSE "base64-image-B"
\* One part of response.candidates[0].content.parts: inline_data holds the
\* bytes of an image or is None, text holds a text or is None.
Part(inline_data, text) == [inline_data |-> inline_data, text |-> text]
TextPart == Part(NULL, "Here is your portrait")
ImagePart(data) == Part(data, NULL)
\* response.candidates as the sequence of the candidates' parts; <<>> is a
\* response without candidates.  The request asks for the default of one
\* candidate.
ResponseShapes ==
    {<<>>, <<<<>>>>, <<<<TextPart>>>>, <<<<ImagePart("png-A")>>>>,
     <<<<TextPart, ImagePart("png-B"), ImagePart("png-A")>>>>,
     <<<<ImagePart("png-A"), TextPart, ImagePart("png-B")>>>>}

\* What one call of client.models.generate_content does: it returns a response
\* with these candidates, or raises an error.
ImageOutcome(kind, candidates, error_str) ==
    [kind |-> kind, candidates |-> candidates, error_str |-> error_str]
ImageOutcomes ==
    {ImageOutcome("response", <<<<ImagePart("png-A")>>>>, {}),
     ImageOutcome("response", <<>>, {})}
    \cup {ImageOutcome("error", <<>>, e) : e \in ErrorStrings}
\* What the provider does on its successive calls: one more than the runner
\* is ever meant to make.
ImageScripts == [1..(MAX_RETRIES + 1) -> ImageOutcomes]
\* The provider answers its call number `after + 1` with a response of the
\* given shape, after transient errors on the calls before.
ShapeScript(after, candidates) ==
    [i \in 1..(MAX_RETRIES + 1) |->
        IF i <= after THEN ImageOutcome("error", <<>>, {"503", "UNAVAILABLE"})
        ELSE ImageOutcome("response", candidates, {})]
ShapeScripts ==
    {ShapeScript(after, candidates) :
        after \in 0..(MAX_RETRIES - 1), candidates \in ResponseShapes}

\* Mutant: every error is taken for a transient one.
is_retryable_always(error_str) == TRUE

\* is_retryable = any(err in error_str for err in RETRYABLE_ERRORS)
is_retryable(error_str) == \E err \in RETRYABLE_ERRORS : err \in error_str

\* Mutant: the same wait before every retry.
backoff_delay_constant(attempt) == BASE_DELAY

\* delay = BASE_DELAY * (2 ** attempt)
backoff_delay(attempt) == BASE_DELAY * (2 ^ attempt)

\* `for attempt in range(MAX_RETRIES):` from iteration `attempt` on, against the
\* provider's script: the calls made in all, the response (a set: {} is None),
\* the error raised out of the loop (a set: {} is none) and the arguments of
\* the calls of time.sleep, in order.
RECURSIVE generate_content_with_retry(_, _)
generate_content_with_retry(attempt, script) ==
    IF attempt >= MAX_RETRIES
    THEN [calls |-> attempt, response |-> {}, raised |-> {}, delays |-> <<>>]
    ELSE LET outcome == script[attempt + 1] IN
         IF outcome.kind = "response"
         THEN [calls |-> attempt + 1, response |-> {outcome}, raised |-> {},
               delays |-> <<>>]
         ELSE IF is_retryable(outcome.error_str) /\ attempt < MAX_RETRIES - 1
              THEN [generate_content_with_retry(attempt + 1, script)
                        EXCEPT !.delays = <<backoff_delay(attempt)>> \o @]
              ELSE [calls |-> attempt + 1, response |-> {},
                    raised |-> {outcome.error_str}, delays |-> <<>>]

\* The argument `preferences` of generate_avatar_async: None, or a dict with
\* some of the keys avatar_universe, avatar_fuels and avatar_element.
PreferenceKeys == {"avatar_universe", "avatar_fuels", "avatar_element"}
Preferences(type, keys, universe, fuels, element) ==
    [type |-> type, keys |-> keys, avatar_universe |-> universe,
     avatar_fuels |-> fuels, avatar_element |-> element]
NoPreferences == Preferences("NoneType", {}, NULL, FuelsValue("NoneType", <<>>), NULL)
AvatarPreferences ==
    {NoPreferences,
     Preferences("dict", {"avatar_universe"}, "cyberpunk", FuelsValue("NoneType", <<>>), NULL),
     Preferences("dict", PreferenceKeys, "cyberpunk",
                 FuelsValue("list", <<"gaming", "knitting">>), "lightning"),
     Preferences("dict", PreferenceKeys, "atlantis",
                 FuelsValue("list", <<"gaming", "knitting">>), "lightning")}
\* What the text provider does when the runner's prompt step calls it.
RunnerPromptReplies ==
    {Reply("text", Text(GeneratedPrompt, n, 0, FALSE)) :
        n \in {MIN_PROMPT_LENGTH - 1, MIN_PROMPT_LENGTH}}
    \cup {Reply(k, NoText) : k \in {"timeout", "api_error"}}

\* `if preferences and all(k in preferences for k in [...]):
\*      prompt = generate_avatar_prompt(...)  else: prompt = FALLBACK_AVATAR_PROMPT`
avatar_prompt(preferences, client, reply) ==
    IF preferences.type = "dict" /\ preferences.keys # {}
       /\ PreferenceKeys \subseteq preferences.keys
    THEN generate_avatar_prompt(client, preferences.avatar_universe,
                                preferences.avatar_fuels, preferences.avatar_element,
                                reply)
    ELSE FALLBACK_AVATAR_PROMPT

\* The argument selfie_base64 of generate_avatar_async as the sequence of its
\* characters: "A" and "d" are characters of the base64 alphabet, "=" is the
\* padding character, "," separates a data-URI prefix from the payload, and
\* ":" and "!" are outside the alphabet.
B64Alphabet == {"A", "d"}
ValidSelfie == <<"d", ":", ",", "A", "A", "A", "A">>
RunnerSelfies ==
    {ValidSelfie,
     <<"A", "A", "A", "A">>,
     <<"A", "A", "A", "A", "!">>,
     <<"d", ":", ",", "A", "A", "=", "=">>,
     <<"d", ":", ",", "A", "A", "A", "A", ",", "A">>,
     <<"d", ":", ",">>,
     <<"d", ":", ",", "A">>,
     <<"d", ":", ",", "A", "A">>,
     <<"A", "A">>,
     <<"d", ":">>}

\* s.split(sep): the pieces of s between its separators.
RECURSIVE split(_, _)
split(s, sep) ==
    IF \A i \in 1..Len(s) : s[i] # sep
    THEN <<s>>
    ELSE LET i == CHOOSE i \in 1..Len(s) : s[i] = sep /\ \A j \in 1..(i - 1) : s[j] # sep
         IN <<SubSeq(s, 1, i - 1)>> \o split(SubSeq(s, i + 1, Len(s)), sep)

\* `selfie_base64.split(',')[1] if ',' in selfie_base64 else selfie_base64`
selfie_payload(selfie_base64) ==
    IF \E i \in 1..Len(selfie_base64) : selfie_base64[i] = ","
    THEN split(selfie_base64, ",")[2]
    ELSE selfie_base64

\* The non-validating decoder behind base64.b64decode, from character i of s
\* on, with quad_pos characters of the current group of four read and pads
\* padding characters seen after them: the number of characters of an
\* unfinished group it ends with.  Characters outside the alphabet are
\* discarded, and a complete padding ends the decoding.
RECURSIVE a2b_base64(_, _, _, _)
a2b_base64(s, i, quad_pos, pads) ==
    IF i > Len(s) THEN quad_pos
    ELSE IF s[i] = "="
         THEN IF quad_pos >= 2 /\ quad_pos + pads + 1 >= 4
              THEN 0
              ELSE a2b_base64(s, i + 1, quad_pos, IF quad_pos >= 2 THEN pads + 1 ELSE pads)
         ELSE IF s[i] \notin B64Alphabet
              THEN a2b_base64(s, i + 1, quad_pos, pads)
              ELSE a2b_base64(s, i + 1, (quad_pos + 1) % 4, 0)

\* str(e) of the exceptions of the try body, each as the set of its words
\* (as the error_str of a provider error).
NoKeyError == {"Gemini", "API", "key", "not", "configured"}
PaddingError == {"Incorrect", "padding"}
DataCharactersError == {"Invalid", "base64-encoded", "string"}
NoResponseError == {"No", "response", "from", "Gemini", "API", "after", "retries"}
NoImageError == {"No", "image", "generated", "in", "response"}

\* base64.b64decode(payload): the error it raises (a set: {} when it returns
\* the decoded bytes).
b64decode_error(payload) ==
    LET quad_pos == a2b_base64(payload, 1, 0, 0) IN
    IF quad_pos = 0 THEN {}
    ELSE IF quad_pos = 1 THEN {DataCharactersError} ELSE {PaddingError}

\* Mutant: the last image part of the response is taken.
generated_image_last(candidates) ==
    IF candidates = <<>> THEN <<>>
    ELSE LET parts == candidates[1]
             found == {i \in 1..Len(parts) : parts[i].inline_data # NULL}
         IN IF found = {} THEN <<>>
            ELSE <<b64encode(parts[CHOOSE i \in found : \A j \in found : j <= i].inline_data)>>

\* `if response.candidates: for part in response.candidates[0].content.parts:
\*      if part.inline_data: generated_image = b64encode(...); break`
\* as a sequence: <<>> is generated_image = None.
generated_image(candidates) ==
    IF candidates = <<>> THEN <<>>
    ELSE LET parts == candidates[1]
             found == {i \in 1..Len(parts) : parts[i].inline_data # NULL}
         IN IF found = {} THEN <<>>
            ELSE <<b64encode(parts[CHOOSE i \in found : \A j \in found : i <= j].inline_data)>>

\* The try body raises e into the except clause, which resolves the job failed
\* with str(e) as its error message.
avatar_try_raises(calls, prompt, delays, e) ==
    [calls |-> calls, prompt |-> prompt, delays |-> delays, outcome |-> "exception",
     status |-> "failed", error |-> <<e>>, image |-> <<>>]

\* The try body from the retry loop to its UPDATE, with the prompt it hands to
\* the image provider.
avatar_try_generate(prompt, script) ==
    LET run == generate_content_with_retry(0, script)
        image == IF run.response = {} THEN <<>>
                 ELSE generated_image((CHOOSE response \in run.response : TRUE).candidates)
    IN IF run.raised # {}
       THEN avatar_try_raises(run.calls, <<prompt>>, run.delays,
                              CHOOSE e \in run.raised : TRUE)
       ELSE IF run.response = {}
            THEN avatar_try_raises(run.calls, <<prompt>>, run.delays, NoResponseError)
            ELSE IF image = <<>>
                 THEN avatar_try_raises(run.calls, <<prompt>>, run.delays, NoImageError)
                 ELSE [calls |-> run.calls, prompt |-> <<prompt>>, delays |-> run.delays,
                       outcome |-> "image", status |-> "completed", error |-> <<>>,
                       image |-> image]

\* Mutant: without a personalized prompt the runner gives up.
generate_avatar_try_needing_prompt(api_key, selfie_base64, preferences, client, reply, script) ==
    IF ~api_key \/ avatar_prompt(preferences, client, reply) = FALLBACK_AVATAR_PROMPT
    THEN avatar_try_raises(0, <<>>, <<>>, NoKeyError)
    ELSE IF b64decode_error(selfie_payload(selfie_base64)) # {}
         THEN avatar_try_raises(0, <<>>, <<>>,
                                CHOOSE e \in b64decode_error(selfie_payload(selfie_base64)) : TRUE)
         ELSE avatar_try_generate(avatar_prompt(preferences, client, reply), script)

\* Mutant: the selfie is handed to the image provider undecoded.
generate_avatar_try_undecoded(api_key, selfie_base64, preferences, client, reply, script) ==
    IF ~api_key
    THEN avatar_try_raises(0, <<>>, <<>>, NoKeyError)
    ELSE avatar_try_generate(avatar_prompt(preferences, client, reply), script)

\* The try body of generate_avatar_async up to its UPDATE: the prompt it hands
\* to the image provider (a sequence: <<>> when it does not get that far), the
\* calls of the image provider it makes, the waits between them, and whether it
\* gets an image ("image", with the image it stores) or raises into the except
\* clause ("exception", with the error message stored), which resolves the job
\* failed.
generate_avatar_try(api_key, selfie_base64, preferences, client, reply, script) ==
    IF ~api_key
    THEN avatar_try_raises(0, <<>>, <<>>, NoKeyError)
    ELSE IF b64decode_error(selfie_payload(selfie_base64)) # {}
         THEN avatar_try_raises(0, <<>>, <<>>,
                                CHOOSE e \in b64decode_error(selfie_payload(selfie_base64)) : TRUE)
         ELSE avatar_try_generate(avatar_prompt(preferences, client, reply), script)

\* The calls of generate_avatar_async considered: every behaviour of the two
\* providers for a selfie that decodes, and every selfie with every shape of
\* response for a runner without preferences.
AvatarTryInputs ==
    {[api_key |-> k, selfie_base64 |-> ValidSelfie, preferences |-> pf, client |-> c,
      reply |-> rp, script |-> sc] :
        k \in BOOLEAN, pf \in AvatarPreferences, c \in BOOLEAN,
        rp \in RunnerPromptReplies, sc \in ImageScripts}
    \cup {[api_key |-> k, selfie_base64 |-> sf, preferences |-> NoPreferences,
           client |-> FALSE, reply |-> Reply("timeout", NoText), script |-> sc] :
            k \in BOOLEAN, sf \in RunnerSelfies, sc \in ShapeScripts}

\* The ways the try body of generate_avatar_async can end, over every
\* configuration and every behaviour of the two providers.
AvatarTryOutcomes ==
    {generate_avatar_try(c.api_key, c.selfie_base64, c.preferences, c.client, c.reply,
                         c.script).outcome : c \in AvatarTryInputs}

\* ------------------------------------------------------------------ runners
\* generate_avatar_async, the try body up to the UPDATE ... 'completed': either
\* an image is produced and stored, or some step raises and control passes to
\* the except clause.
GenerateAvatar(r) ==
    LET t == <<r, "avatar">> IN
    /\ pc[t] = "run"
    /\ \E outcome \in AvatarTryOutcomes :
          IF outcome = "image"
          THEN /\ avatars' = update_avatar_completed(r, GeneratedImage)
               /\ pc' = [pc EXCEPT ![t] = "select_avatar"]
          ELSE /\ pc' = [pc EXCEPT ![t] = "except"]
               /\ UNCHANGED avatars
    /\ UNCHANGED <<responses, vibe_plans, next_id, req, spc, avatar,
                   notifier_calls, handling, disturbances,
                   fn_vars>>

\* generate_plan_async, the try body up to the commit of its UPDATE.
GeneratePlan(r) ==
    LET t == <<r, "plan">>
        wishlist_app == req[r].wishlist_app
    IN
    /\ pc[t] = "run"
    /\ \E result \in PlanTryResults[wishlist_app] :
          LET plan_content == result[1]
              success == result[2]
          IN vibe_plans' = IF success
                           THEN update_plan_completed(r, plan_content)
                           ELSE update_plan_failed(r, plan_content)
    /\ pc' = [pc EXCEPT ![t] = "select_avatar"]
    /\ UNCHANGED <<responses, avatars, next_id, req, spc, avatar,
                   notifier_calls, handling, disturbances,
                   fn_vars>>

\* The except clause of a runner: UPDATE ... SET status = 'failed',
\* error_message = str(e) WHERE id = its own row, then the second call of
\* check_and_send_email.
HandleException(t) ==
    /\ pc[t] = "except"
    /\ IF t[2] = "avatar"
       THEN /\ avatars' = update_avatar_failed(t[1], ExceptionText)
            /\ UNCHANGED vibe_plans
       ELSE /\ vibe_plans' = update_plan_failed(t[1], ExceptionText)
            /\ UNCHANGED avatars
    /\ handling' = [handling EXCEPT ![t] = TRUE]
    /\ pc' = [pc EXCEPT ![t] = "select_avatar"]
    /\ UNCHANGED <<responses, next_id, req, spc, avatar, notifier_calls, disturbances,
                   fn_vars>>

\* A store operation of a runner thread raises (get_db(), execute or commit).
\* In the try body (the UPDATE, or a SELECT of check_and_send_email called at
\* the end of the try body) the exception is caught by the runner's except
\* clause; inside the except clause it leaves the runner.
StoreFault(t) ==
    /\ disturbances < MaxDisturbances
    /\ pc[t] \in {"run", "select_avatar", "select_plan", "except"}
    /\ disturbances' = disturbances + 1
    /\ pc' = [pc EXCEPT ![t] = IF handling[t] \/ pc[t] = "except"
                                THEN "raised" ELSE "except"]
    /\ avatar' = [avatar EXCEPT ![t] = {}]
    /\ UNCHANGED <<responses, avatars, vibe_plans, next_id, req, spc,
                   notifier_calls, handling,
                   fn_vars>>

\* ------------------------------------------------------------------ notifier
APP_URL == "https://llm-survey-app.onrender.com"
\* The three subjects send_combined_email chooses from.
SubjectBoth == "Your Wizard Avatar & Vibe Coding Plan are Ready!"
SubjectAvatar == "Your Vibe Coding Wizard Avatar is Ready!"
SubjectPlan == "Your Vibe Coding Kickstart Plan is Ready!"

\* Python truthiness of an optional text and of an optional identifier.
truthy(text) == text \notin {NULL, ""}
truthy_id(id) == id # NoId

\* What resend.Emails.send does: it returns, or raises.
SendOutcomes == {"sent", "error"}

\* f"{APP_URL}/avatar/{avatar_id}"
AvatarLink(avatar_id) == [app_url |-> APP_URL, path |-> "/avatar/", avatar_id |-> avatar_id]

\* Mutant: an avatar takes the avatar-only subject, whatever else is present.
email_subject_avatar_first(avatar_id, plan_content) ==
    IF truthy_id(avatar_id) THEN SubjectAvatar
    ELSE IF truthy(plan_content) THEN SubjectPlan
    ELSE SubjectBoth

\* `if avatar_id and plan_content: ... elif avatar_id: ... else: ...`
email_subject(avatar_id, plan_content) ==
    IF truthy_id(avatar_id) /\ truthy(plan_content) THEN SubjectBoth
    ELSE IF truthy_id(avatar_id) THEN SubjectAvatar
    ELSE SubjectPlan

\* avatar_section and attachments (sets: {} is the empty string, the empty
\* list): the embedded image, with the link to the full-size avatar under it.
avatar_section(avatar_id, avatar_data) ==
    IF truthy_id(avatar_id) /\ truthy(avatar_data)
    THEN {[img |-> "cid:avatar_image", href |-> AvatarLink(avatar_id)]}
    ELSE {}
attachments(avatar_id, avatar_data) ==
    IF truthy_id(avatar_id) /\ truthy(avatar_data)
    THEN {[content |-> avatar_data, filename |-> "wizard-avatar.png",
           content_id |-> "avatar_image"]}
    ELSE {}
\* plan_section (a set: {} is the empty string): the plan HTML it wraps.
plan_section(plan_content) == IF truthy(plan_content) THEN {plan_content} ELSE {}

\* email_params, as handed to resend.Emails.send.
email_params(email, avatar_id, avatar_data, plan_content) ==
    [to |-> email,
     subject |-> email_subject(avatar_id, plan_content),
     html |-> [avatar_section |-> avatar_section(avatar_id, avatar_data),
               plan_section |-> plan_section(plan_content)],
     attachments |-> attachments(avatar_id, avatar_data)]

\* Mutant: a failure of the email provider leaves the function as an exception.
send_combined_email_propagating(api_key, email, avatar_id, avatar_data, plan_content, send) ==
    IF ~api_key THEN [raised |-> FALSE, sends |-> <<>>]
    ELSE [raised |-> send = "error",
          sends |-> <<email_params(email, avatar_id, avatar_data, plan_content)>>]

\* send_combined_email(email, avatar_id, avatar_data, plan_content), with whether
\* RESEND_API_KEY is set and what resend.Emails.send does when it is called:
\* whether an exception leaves the function, and the calls of resend.Emails.send
\* it makes.  The whole body is inside `try: ... except Exception`.
send_combined_email(api_key, email, avatar_id, avatar_data, plan_content, send) ==
    IF ~api_key THEN [raised |-> FALSE, sends |-> <<>>]
    ELSE [raised |-> FALSE,
          sends |-> <<email_params(email, avatar_id, avatar_data, plan_content)>>]

\* ------------------------------------------------------------- coordinator
\* `avatar and avatar['status'] == 'pending'` (likewise for plan).
is_pending(row) == \E x \in row : x.status = "pending"
\* Mutant: a row counts as having produced output once it is terminal.
is_terminal_row(row) == \E x \in row : x.status \in {"completed", "failed"}

\* `avatar and avatar['status'] == 'completed'` (likewise for plan).
is_completed(row) == \E x \in row : x.status = "completed"

\* Mutant: only the avatar row is waited for.
still_waiting_avatar_only(avatar_row, plan_row) == is_pending(avatar_row)

\* Mutant: a failed row keeps the coordinator waiting.
still_waiting_for_success(avatar_row, plan_row) ==
    \E x \in avatar_row \cup plan_row : x.status # "completed"

\* `if avatar_pending or plan_pending: return`
still_waiting(avatar_row, plan_row) == is_pending(avatar_row) \/ is_pending(plan_row)

\* Mutant: the email is sent whether or not there is anything to share.
has_content_unchecked(avatar_id, plan_content) == TRUE

\* `if avatar_id or plan_content:`
has_content(avatar_id, plan_content) == truthy_id(avatar_id) \/ truthy(plan_content)

\* Mutant: the image payload is not handed to the notifier.
email_args_without_image(avatar_row, plan_row, email) ==
    [email |-> email,
     avatar_id |-> IF is_completed(avatar_row)
                   THEN (CHOOSE x \in avatar_row : TRUE).id ELSE NoId,
     avatar_data |-> NULL,
     plan_content |-> IF is_completed(plan_row)
                      THEN (CHOOSE x \in plan_row : TRUE).plan_content ELSE NULL]

\* The arguments check_and_send_email passes to send_combined_email.
email_args(avatar_row, plan_row, email) ==
    LET avatar_id == IF is_completed(avatar_row)
                     THEN (CHOOSE x \in avatar_row : TRUE).id ELSE NoId
        avatar_data == IF is_completed(avatar_row)
                       THEN (CHOOSE x \in avatar_row : TRUE).image_data ELSE NULL
        plan_content == IF is_completed(plan_row)
                        THEN (CHOOSE x \in plan_row : TRUE).plan_content ELSE NULL
    IN [email |-> email, avatar_id |-> avatar_id, avatar_data |-> avatar_data,
        plan_content |-> plan_content]

\* Mutant: the email is sent as soon as nothing is pending.
check_and_send_email_unguarded(avatar_row, plan_row, email) ==
    IF is_pending(avatar_row) \/ is_pending(plan_row) THEN <<>>
    ELSE <<[email |-> email, avatar_id |-> NoId, avatar_data |-> NULL,
            plan_content |-> NULL]>>

\* check_and_send_email after its two SELECTs: the calls of send_combined_email
\* it makes (none, or one).
check_and_send_email(avatar_row, plan_row, email) ==
    LET args == email_args(avatar_row, plan_row, email) IN
    IF still_waiting(avatar_row, plan_row) THEN <<>>
    ELSE IF has_content(args.avatar_id, args.plan_content) THEN <<args>>
    ELSE <<>>

\* Whether an exception comes out of the calls of send_combined_email that
\* check_and_send_email makes, over the email provider configured or not and
\* answering or failing.
notifier_raises(calls) ==
    {\E i \in DOMAIN calls :
        send_combined_email(api_key, calls[i].email, calls[i].avatar_id,
                            calls[i].avatar_data, calls[i].plan_content, send).raised :
     api_key \in BOOLEAN, send \in SendOutcomes}

\* SELECT ... FROM avatars WHERE response_id = %s; avatar = cur.fetchone()
CoordSelectAvatar(t) ==
    /\ pc[t] = "select_avatar"
    /\ \E row \in fetchone(select_avatar(t[1])) :
          avatar' = [avatar EXCEPT ![t] = row]
    /\ pc' = [pc EXCEPT ![t] = "select_plan"]
    /\ UNCHANGED <<responses, avatars, vibe_plans, next_id, req, spc,
                   notifier_calls, handling, disturbances,
                   fn_vars>>

\* SELECT ... FROM vibe_plans WHERE response_id = %s; plan = cur.fetchone(), and
\* the rest of check_and_send_email, which touches no shared state: the decision
\* on the two fetched rows, the call of send_combined_email with the email
\* provider configured or not and answering or failing, and the return of the
\* runner that called it (or, were the call to raise, the way of that exception).
CoordSelectPlan(t) ==
    /\ pc[t] = "select_plan"
    /\ \E plan \in fetchone(select_plan(t[1])) :
          LET calls == check_and_send_email(avatar[t], plan, req[t[1]].email) IN
          /\ notifier_calls' = [notifier_calls EXCEPT ![t[1]] = @ \o calls]
          /\ \E raised \in notifier_raises(calls) :
                pc' = [pc EXCEPT ![t] = IF ~raised THEN "returned"
                                        ELSE IF handling[t] THEN "raised" ELSE "except"]
    /\ avatar' = [avatar EXCEPT ![t] = {}]
    /\ UNCHANGED <<responses, avatars, vibe_plans, next_id, req, spc, handling, disturbances,
                   fn_vars>>

\* ------------------------------------------------------------------ operator
\* delete_response: DELETE FROM avatars WHERE response_id, DELETE FROM responses
\* WHERE id, in one transaction.  vibe_plans.response_id REFERENCES
\* responses(id) without a cascade: while a plan row refers to the response the
\* second DELETE raises and the transaction is never committed.
delete_response(response_id) ==
    /\ disturbances < MaxDisturbances
    /\ \E x \in responses : x.id = response_id
    /\ disturbances' = disturbances + 1
    /\ IF \E p \in vibe_plans : p.response_id = response_id
       THEN UNCHANGED <<avatars, responses>>
       ELSE /\ avatars' = {a \in avatars : a.response_id # response_id}
            /\ responses' = {x \in responses : x.id # response_id}
    /\ UNCHANGED <<vibe_plans, next_id, req, spc, pc, avatar,
                   notifier_calls, handling,
                   fn_vars>>

\* delete_avatar: DELETE FROM avatars WHERE id = %s
delete_avatar(avatar_id) ==
    /\ disturbances < MaxDisturbances
    /\ \E a \in avatars : a.id = avatar_id
    /\ disturbances' = disturbances + 1
    /\ avatars' = {a \in avatars : a.id # avatar_id}
    /\ UNCHANGED <<responses, vibe_plans, next_id, req, spc, pc, avatar,
                   notifier_calls, handling,
                   fn_vars>>

\* clear_failed_avatars: DELETE FROM avatars WHERE status = 'failed'
clear_failed_avatars ==
    /\ disturbances < MaxDisturbances
    /\ disturbances' = disturbances + 1
    /\ avatars' = {a \in avatars : a.status # "failed"}
    /\ UNCHANGED <<responses, vibe_plans, next_id, req, spc, pc, avatar,
                   notifier_calls, handling,
                   fn_vars>>

\* clear_all_data: DELETE FROM vibe_plans; DELETE FROM avatars; DELETE FROM
\* responses, in one transaction.
clear_all_data ==
    /\ disturbances < MaxDisturbances
    /\ disturbances' = disturbances + 1
    /\ vibe_plans' = {}
    /\ avatars' = {}
    /\ responses' = {}
    /\ UNCHANGED <<next_id, req, spc, pc, avatar, notifier_calls, handling,
                   fn_vars>>

\* ------------------------------------------------------------ specification
RunnerStep(t) ==
    \/ (t[2] = "avatar" /\ GenerateAvatar(t[1]))
    \/ (t[2] = "plan" /\ GeneratePlan(t[1]))
    \/ HandleException(t)
    \/ CoordSelectAvatar(t)
    \/ CoordSelectPlan(t)

SubmitStep(r) ==
    \/ SubmitCountAvatars(r)
    \/ SubmitInsertAvatar(r)
    \/ SubmitInsertPlan(r)

Next ==
    \/ \E email \in Emails, selfie_data \in Selfies, wishlist_app \in Wishlists :
          SubmitInsertResponse(email, selfie_data, wishlist_app)
    \/ \E r \in RIDs : SubmitStep(r)
    \/ \E t \in Threads : RunnerStep(t)
    \/ \E t \in Threads : StoreFault(t)
    \/ \E r \in RIDs : delete_response(r)
    \/ \E r \in RIDs : delete_avatar(r)
    \/ clear_failed_avatars
    \/ clear_all_data

Spec == Init /\ [][Next]_vars

\* The program with a store that answers every statement and no operator
\* request: the request handlers and the runner threads alone.
NextUndisturbed ==
    \/ \E email \in Emails, selfie_data \in Selfies, wishlist_app \in Wishlists :
          SubmitInsertResponse(email, selfie_data, wishlist_app)
    \/ \E r \in RIDs : SubmitStep(r)
    \/ \E t \in Threads : RunnerStep(t)

\* Every started request handler and every started thread keeps running: the
\* scheduler does not starve a thread, and every call a step makes returns.
LiveSpec ==
    /\ Init /\ [][NextUndisturbed]_vars
    /\ \A r \in RIDs : WF_vars(SubmitStep(r))
    /\ \A t \in Threads : WF_vars(RunnerStep(t))

\* ------------------------------------------------------------------ quota
\* The program after `earlier` submit requests of one email, each with a selfie,
\* have been served one after the other (at most MAX_AVATARS_PER_EMAIL of them,
\* so each got its avatar row), their runners being at any point of their life;
\* MaxSubmits further requests can be served.
QuotaEmail == "a@x.com"
QuotaEmails == {QuotaEmail, "b@x.com"}
JobStatuses == {"pending", "completed", "failed"}

EarlierRow(r, status) ==
    [id |-> r, email |-> QuotaEmail, response_id |-> r, status |-> status,
     image_data |-> IF status = "completed" THEN GeneratedImage ELSE NULL,
     error_message |-> IF status = "failed" THEN ExceptionText ELSE NULL]

QuotaInit ==
    \E earlier \in 0..MAX_AVATARS_PER_EMAIL : \E status \in [1..earlier -> JobStatuses] :
        LET rids == 1..(earlier + MaxSubmits) IN
        /\ responses = {[id |-> r, email |-> QuotaEmail] : r \in 1..earlier}
        /\ avatars = {EarlierRow(r, status[r]) : r \in 1..earlier}
        /\ vibe_plans = {}
        /\ next_id = earlier
        /\ req = [r \in rids |->
                    IF r <= earlier
                    THEN [email |-> QuotaEmail, selfie_data |-> "data:image/jpeg;base64,AAAA",
                          wishlist_app |-> ""]
                    ELSE NoRequest]
        /\ spc = [r \in rids |-> IF r <= earlier THEN "done" ELSE "idle"]
        /\ pc = [t \in rids \X Kinds |->
                    IF t[1] <= earlier /\ t[2] = "avatar"
                    THEN IF status[t[1]] = "pending" THEN "run" ELSE "returned"
                    ELSE "idle"]
        /\ avatar = [t \in rids \X Kinds |-> {}]
        /\ notifier_calls = [r \in rids |->
                    IF r <= earlier
                    THEN check_and_send_email({[id |-> r, status |-> status[r],
                             image_data |-> EarlierRow(r, status[r]).image_data]},
                             {}, QuotaEmail)
                    ELSE <<>>]
        /\ handling = [t \in rids \X Kinds |->
                    t[1] <= earlier /\ t[2] = "avatar" /\ status[t[1]] = "failed"]
        /\ disturbances = 0
        /\ fn_call = NoCall
        /\ fn_ret = <<>>

\* No submit request is between its first and its last statement.
NoSubmitInFlight == \A r \in DOMAIN spc : spc[r] \in {"idle", "done", "error"}

\* Requests of the operator (admin routes) that delete avatar rows.
OperatorDeletion ==
    \/ \E r \in DOMAIN spc : delete_response(r)
    \/ \E r \in DOMAIN spc : delete_avatar(r)
    \/ clear_failed_avatars

\* Submit requests with a selfie and no wishlist, served concurrently.
QuotaNext ==
    \/ \E email \in QuotaEmails, selfie_data \in Selfies :
          SubmitInsertResponse(email, selfie_data, "")
    \/ \E r \in DOMAIN spc : SubmitCountAvatars(r)
    \/ \E r \in DOMAIN spc : SubmitInsertAvatar(r)
    \/ OperatorDeletion

QuotaSpec == QuotaInit /\ [][QuotaNext]_vars

\* The same requests served one after the other: a request starts only when
\* every earlier one has been answered.
SerialQuotaNext ==
    \/ \E email \in QuotaEmails, selfie_data \in Selfies :
          NoSubmitInFlight /\ SubmitInsertResponse(email, selfie_data, "")
    \/ \E r \in DOMAIN spc : SubmitCountAvatars(r)
    \/ \E r \in DOMAIN spc : SubmitInsertAvatar(r)
    \/ OperatorDeletion

SerialQuotaSpec == QuotaInit /\ [][SerialQuotaNext]_vars

\* ---------------------------------------------------------- two responses
\* The program once a first submit request, with an email, a selfie and a
\* wishlist, has been answered: response 1 has its two job rows, both pending,
\* and its two runner threads are started.  One more request can be served,
\* for the same email or another.
PairSelfie == "data:image/jpeg;base64,AAAA"
PairInit ==
    LET rids == 1..2
        q == [email |-> QuotaEmail, selfie_data |-> PairSelfie,
              wishlist_app |-> CustomWishlist]
    IN
    /\ responses = {[id |-> 1, email |-> QuotaEmail]}
    /\ avatars = {[id |-> 1, email |-> QuotaEmail, response_id |-> 1,
                   status |-> "pending", image_data |-> NULL, error_message |-> NULL]}
    /\ vibe_plans = {[id |-> 1, email |-> QuotaEmail, response_id |-> 1,
                      wishlist_input |-> CustomWishlist, status |-> "pending",
                      plan_content |-> NULL, error_message |-> NULL]}
    /\ next_id = 1
    /\ req = [r \in rids |-> IF r = 1 THEN q ELSE NoRequest]
    /\ spc = [r \in rids |-> IF r = 1 THEN "done" ELSE "idle"]
    /\ pc = [t \in rids \X Kinds |-> IF t[1] = 1 THEN "run" ELSE "idle"]
    /\ avatar = [t \in rids \X Kinds |-> {}]
    /\ notifier_calls = [r \in rids |-> <<>>]
    /\ handling = [t \in rids \X Kinds |-> FALSE]
    /\ disturbances = 0
    /\ fn_call = NoCall
    /\ fn_ret = <<>>

\* The runners of the two responses, the second request and the operator's
\* deletions of single rows, all concurrent.
PairNext ==
    \/ \E email \in QuotaEmails :
          SubmitInsertResponse(email, PairSelfie, CustomWishlist)
    \/ \E r \in DOMAIN spc : SubmitStep(r)
    \/ \E t \in DOMAIN pc : RunnerStep(t)
    \/ \E t \in DOMAIN pc : StoreFault(t)
    \/ \E r \in DOMAIN spc : delete_response(r)
    \/ \E r \in DOMAIN spc : delete_avatar(r)

PairSpec == PairInit /\ [][PairNext]_vars

\* ------------------------------------------------------ functions on their own
\* generate_vibe_plan, generate_avatar_prompt, send_combined_email,
\* check_and_send_email, check_email and the try bodies of the two runners, each
\* called on arguments, a configuration and a behaviour of its provider drawn
\* from the sets below.
JobWishlists == {CannedKey, "email & calendar (outlook, gmail)", CustomWishlist}

VibePlanCalls ==
    {[fn |-> "generate_vibe_plan", client |-> c, wishlist_app |-> w, reply |-> rp] :
        c \in BOOLEAN, w \in {NULL, CannedKey} \cup Wishlists, rp \in PlanReplies}
PlanAsyncCalls ==
    {[fn |-> "generate_plan_async", client |-> c, wishlist_app |-> w, reply |-> rp] :
        c \in BOOLEAN, w \in JobWishlists, rp \in PlanReplies}
AvatarAsyncCalls ==
    {[fn |-> "generate_avatar_async", api_key |-> c.api_key,
      selfie_base64 |-> c.selfie_base64, preferences |-> c.preferences,
      client |-> c.client, reply |-> c.reply, script |-> c.script] :
        c \in AvatarTryInputs}
AvatarPromptCalls ==
    {[fn |-> "generate_avatar_prompt", client |-> c, universe |-> u, fuels |-> f,
      element |-> e, reply |-> rp] :
        c \in BOOLEAN, u \in Universes, f \in FuelsValues, e \in Elements,
        rp \in PromptReplies}
\* send_combined_email on every combination of present and absent outputs.
NotifierCalls ==
    {[fn |-> "send_combined_email", api_key |-> k, email |-> "a@x.com", avatar_id |-> id,
      avatar_data |-> d, plan_content |-> pl, send |-> sd] :
        k \in BOOLEAN, id \in {NoId, 1}, d \in {NULL, GeneratedImage},
        pl \in {NULL, GeneratedPlan}, sd \in SendOutcomes}

\* The program when send_combined_email is called: response 1 has its two job
\* rows, both terminal, its avatar runner has returned and its plan runner is
\* inside check_and_send_email.
NotifierInit ==
    \E c \in NotifierCalls :
        LET avatar_status == IF c.avatar_id # NoId THEN "completed" ELSE "failed"
            plan_status == IF c.plan_content # NULL THEN "completed" ELSE "failed"
            avatar_row == [EarlierRow(1, avatar_status) EXCEPT !.email = c.email]
        IN
        /\ fn_call = c
        /\ responses = {[id |-> 1, email |-> c.email]}
        /\ avatars = {avatar_row}
        /\ vibe_plans =
              {[id |-> 1, email |-> c.email, response_id |-> 1,
                wishlist_input |-> CustomWishlist, status |-> plan_status,
                plan_content |-> IF plan_status = "completed" THEN GeneratedPlan ELSE NULL,
                error_message |-> IF plan_status = "failed"
                                  THEN VIBE_PLAN_ERROR_MESSAGE ELSE NULL]}
        /\ next_id = 1
        /\ req = [r \in RIDs |->
                    IF r = 1
                    THEN [email |-> c.email, selfie_data |-> "data:image/jpeg;base64,AAAA",
                          wishlist_app |-> CustomWishlist]
                    ELSE NoRequest]
        /\ spc = [r \in RIDs |-> IF r = 1 THEN "done" ELSE "idle"]
        /\ pc = [t \in Threads |->
                    IF t = <<1, "avatar">> THEN "returned"
                    ELSE IF t = <<1, "plan">> THEN "select_plan" ELSE "idle"]
        /\ avatar = [t \in Threads |->
                    IF t = <<1, "plan">>
                    THEN {[id |-> 1, status |-> avatar_status,
                           image_data |-> avatar_row.image_data]}
                    ELSE {}]
        /\ notifier_calls = [r \in RIDs |-> <<>>]
        /\ handling = [t \in Threads |-> t = <<1, "avatar">> /\ avatar_status = "failed"]
        /\ disturbances = 0

\* The program when check_and_send_email is called for response 1, over every
\* combination of its two job rows: each absent, pending, completed or failed,
\* and the runner of each row where that status puts it.
RowStates == {"absent"} \cup JobStatuses
CoordinatorInit ==
    \E avatar_status \in RowStates, plan_status \in RowStates :
        /\ fn_call = [fn |-> "check_and_send_email", response_id |-> 1,
                      email |-> QuotaEmail]
        /\ responses = {[id |-> 1, email |-> QuotaEmail]}
        /\ avatars = IF avatar_status = "absent" THEN {}
                     ELSE {EarlierRow(1, avatar_status)}
        /\ vibe_plans =
              IF plan_status = "absent" THEN {}
              ELSE {[id |-> 1, email |-> QuotaEmail, response_id |-> 1,
                     wishlist_input |-> CustomWishlist, status |-> plan_status,
                     plan_content |-> IF plan_status = "completed"
                                      THEN GeneratedPlan ELSE NULL,
                     error_message |-> IF plan_status = "failed"
                                       THEN VIBE_PLAN_ERROR_MESSAGE ELSE NULL]}
        /\ next_id = 1
        /\ req = [r \in RIDs |->
                    IF r = 1
                    THEN [email |-> QuotaEmail,
                          selfie_data |-> IF avatar_status = "absent" THEN ""
                                          ELSE "data:image/jpeg;base64,AAAA",
                          wishlist_app |-> IF plan_status = "absent" THEN ""
                                           ELSE CustomWishlist]
                    ELSE NoRequest]
        /\ spc = [r \in RIDs |-> IF r = 1 THEN "done" ELSE "idle"]
        /\ pc = [t \in Threads |->
                    LET status == IF t[2] = "avatar" THEN avatar_status ELSE plan_status
                    IN IF t[1] # 1 \/ status = "absent" THEN "idle"
                       ELSE IF status = "pending" THEN "run" ELSE "returned"]
        /\ avatar = [t \in Threads |-> {}]
        /\ notifier_calls = [r \in RIDs |-> <<>>]
        /\ handling = [t \in Threads |-> FALSE]
        /\ disturbances = 0

\* The email field of a request as the client sends it, and what
\* .lower().strip() makes of it.
RawEmails == {"", " ", "a@x.com", " A@X.com ", "b@x.com"}
lower_strip(email) ==
    IF email = " " THEN "" ELSE IF email = " A@X.com " THEN "a@x.com" ELSE email

\* Mutant: the quota query admits an email whose count equals the ceiling.
check_email_inclusive(email) ==
    IF lower_strip(email) = ""
    THEN [allowed |-> FALSE, remaining |-> <<>>, message |-> "Email required"]
    ELSE LET count == get_avatar_count(lower_strip(email))
             allowed == count <= MAX_AVATARS_PER_EMAIL
         IN [allowed |-> allowed,
             remaining |-> <<MAX_AVATARS_PER_EMAIL - count>>,
             message |-> IF allowed THEN "You have {remaining} avatar(s) remaining"
                         ELSE "Maximum avatars reached for this email"]

\* check_email(): the JSON object it answers with (remaining is a sequence:
\* <<>> when the object has no such key).
check_email(email) ==
    IF lower_strip(email) = ""
    THEN [allowed |-> FALSE, remaining |-> <<>>, message |-> "Email required"]
    ELSE LET count == get_avatar_count(lower_strip(email))
             allowed == count < MAX_AVATARS_PER_EMAIL
         IN [allowed |-> allowed,
             remaining |-> <<MAX_AVATARS_PER_EMAIL - count>>,
             message |-> IF allowed THEN "You have {remaining} avatar(s) remaining"
                         ELSE "Maximum avatars reached for this email"]

CheckEmailCalls == {[fn |-> "check_email", email |-> e] : e \in RawEmails}

\* The program when check_email is called: QuotaEmail owns up to one avatar row
\* more than the ceiling (what two overlapping requests can leave), each in any
\* status, no request is being served, and one more can be.
CheckEmailInit ==
    \E earlier \in 0..(MAX_AVATARS_PER_EMAIL + 1) :
      \E status \in [1..earlier -> JobStatuses] :
        LET rids == 1..(earlier + 1) IN
        /\ responses = {[id |-> r, email |-> QuotaEmail] : r \in 1..earlier}
        /\ avatars = {EarlierRow(r, status[r]) : r \in 1..earlier}
        /\ vibe_plans = {}
        /\ next_id = earlier
        /\ req = [r \in rids |->
                    IF r <= earlier
                    THEN [email |-> QuotaEmail, selfie_data |-> "data:image/jpeg;base64,AAAA",
                          wishlist_app |-> ""]
                    ELSE NoRequest]
        /\ spc = [r \in rids |-> IF r <= earlier THEN "done" ELSE "idle"]
        /\ pc = [t \in rids \X Kinds |->
                    IF t[1] <= earlier /\ t[2] = "avatar"
                    THEN IF status[t[1]] = "pending" THEN "run" ELSE "returned"
                    ELSE "idle"]
        /\ avatar = [t \in rids \X Kinds |-> {}]
        /\ notifier_calls = [r \in rids |->
                    IF r <= earlier
                    THEN check_and_send_email({[id |-> r, status |-> status[r],
                             image_data |-> EarlierRow(r, status[r]).image_data]},
                             {}, QuotaEmail)
                    ELSE <<>>]
        /\ handling = [t \in rids \X Kinds |->
                    t[1] <= earlier /\ t[2] = "avatar" /\ status[t[1]] = "failed"]
        /\ disturbances = 0
        /\ fn_call \in CheckEmailCalls

CallInit ==
    /\ \/ /\ JobInit
          /\ \/ fn_call \in VibePlanCalls
             \/ fn_call \in PlanAsyncCalls
             \/ fn_call \in AvatarAsyncCalls
             \/ fn_call \in AvatarPromptCalls
       \/ NotifierInit
       \/ CoordinatorInit
       \/ CheckEmailInit
    /\ fn_ret = <<>>

CallGenerateVibePlan ==
    /\ fn_call.fn = "generate_vibe_plan" /\ fn_ret = <<>>
    /\ fn_ret' = <<[value |-> generate_vibe_plan(fn_call.client, fn_call.wishlist_app,
                                                 fn_call.reply),
                    provider_calls |-> vibe_plan_provider_calls(fn_call.client,
                                                                fn_call.wishlist_app)]>>
    /\ UNCHANGED <<job_vars, fn_call>>

CallGeneratePlanAsync ==
    /\ fn_call.fn = "generate_plan_async" /\ fn_ret = <<>>
    /\ fn_ret' = <<plan_job_outcome(fn_call.client, fn_call.wishlist_app, fn_call.reply)>>
    /\ UNCHANGED <<job_vars, fn_call>>

CallGenerateAvatarAsync ==
    /\ fn_call.fn = "generate_avatar_async" /\ fn_ret = <<>>
    /\ fn_ret' = <<generate_avatar_try(fn_call.api_key, fn_call.selfie_base64,
                                       fn_call.preferences, fn_call.client,
                                       fn_call.reply, fn_call.script)>>
    /\ UNCHANGED <<job_vars, fn_call>>

CallGenerateAvatarPrompt ==
    /\ fn_call.fn = "generate_avatar_prompt" /\ fn_ret = <<>>
    /\ fn_ret' = <<generate_avatar_prompt(fn_call.client, fn_call.universe, fn_call.fuels,
                                          fn_call.element, fn_call.reply)>>
    /\ UNCHANGED <<job_vars, fn_call>>

CallSendCombinedEmail ==
    /\ fn_call.fn = "send_combined_email" /\ fn_ret = <<>>
    /\ fn_ret' = <<send_combined_email(fn_call.api_key, fn_call.email, fn_call.avatar_id,
                                       fn_call.avatar_data, fn_call.plan_content,
                                       fn_call.send)>>
    /\ UNCHANGED <<job_vars, fn_call>>

\* check_and_send_email(response_id, email), called a first and a second time
\* on the store as it is: each call returns the calls of send_combined_email it
\* made.
CallCheckAndSendEmail ==
    /\ fn_call.fn = "check_and_send_email" /\ Len(fn_ret) < 2
    /\ \E avatar_row \in fetchone(select_avatar(fn_call.response_id)),
          plan_row \in fetchone(select_plan(fn_call.response_id)) :
          fn_ret' = Append(fn_ret, check_and_send_email(avatar_row, plan_row, fn_call.email))
    /\ UNCHANGED <<job_vars, fn_call>>

CallCheckEmail ==
    /\ fn_call.fn = "check_email" /\ fn_ret = <<>>
    /\ fn_ret' = <<check_email(fn_call.email)>>
    /\ UNCHANGED <<job_vars, fn_call>>

\* The submit request that follows the answer of check_email, with nothing
\* else in between: email = request.form.get('email', '').lower().strip().
CallSubmit ==
    /\ fn_call.fn = "check_email" /\ fn_ret # <<>>
    /\ \/ \E email \in RawEmails, selfie_data \in Selfies, wishlist_app \in Wishlists :
             SubmitInsertResponse(lower_strip(email), selfie_data, wishlist_app)
       \/ \E r \in DOMAIN spc : SubmitStep(r)

CallNext ==
    \/ CallGenerateVibePlan
    \/ CallGeneratePlanAsync
    \/ CallGenerateAvatarAsync
    \/ CallGenerateAvatarPrompt
    \/ CallSendCombinedEmail
    \/ CallCheckAndSendEmail
    \/ CallCheckEmail
    \/ CallSubmit

CallSpec == CallInit /\ [][CallNext]_vars

\* ------------------------------------------------------------------ claims
avatar_rows(r) == {a \in avatars : a.response_id = r}
plan_rows(r) == {p \in vibe_plans : p.response_id = r}
job_rows(r) == {[kind |-> "avatar", status |-> a.status] : a \in avatar_rows(r)}
               \cup {[kind |-> "plan", status |-> p.status] : p \in plan_rows(r)}
Terminal == {"completed", "failed"}
\* The status a coordinator invocation saw in a fetched row; "absent" for None.
StatusOf(row) == IF row = {} THEN "absent" ELSE (CHOOSE x \in row : TRUE).status
\* The number of times send_combined_email was called for response r.
Notifications(r) == Len(notifier_calls[r])
\* Thread t's invocation of check_and_send_email finishes in this step, having
\* fetched avatar[t] and the plan row select_plan(t[1]).
Decides(t) == pc[t] = "select_plan" /\ pc'[t] = "returned"
\* That invocation calls send_combined_email exactly once, with these arguments.
CallsNotifier(t, avatar_id, avatar_data, plan_content) ==
    notifier_calls' = [notifier_calls EXCEPT ![t[1]] =
        Append(@, [email |-> req[t[1]].email, avatar_id |-> avatar_id,
                   avatar_data |-> avatar_data, plan_content |-> plan_content])]
CallsNothing == notifier_calls' = notifier_calls
\* The content of the one plan row of response r.
ContentOf(row) == (CHOOSE x \in row : TRUE).plan_content
ImageOf(row) == (CHOOSE x \in row : TRUE).image_data
IdOf(row) == (CHOOSE x \in row : TRUE).id

\* C1: send_combined_email is called at most once per response, in every
\* execution, also when both runners finish concurrently.
C1_AtMostOneNotification == \A r \in RIDs : Notifications(r) <= 1

\* C2: for a submission that asks for an avatar and a plan, no notification is
\* sent before both job rows exist and are terminal (stated for executions
\* without store fault and operator request).
C2_NoNotificationBeforeBothTerminal ==
    [][\A r \in RIDs :
          (/\ wants_avatar(req[r]) /\ wants_plan(req[r])
           /\ disturbances = 0
           /\ notifier_calls'[r] # notifier_calls[r])
          => (/\ avatar_rows(r) # {} /\ plan_rows(r) # {}
              /\ \A j \in job_rows(r) : j.status \in Terminal)]_vars

\* C3: an invocation of check_and_send_email that fetched a pending avatar row or
\* a pending plan row does not call the notifier, whatever the other row is.
C3_PendingRowBlocksNotifier ==
    [][\A t \in Threads :
          (Decides(t) /\ ("pending" \in {StatusOf(avatar[t]), StatusOf(select_plan(t[1]))}))
          => CallsNothing]_vars

C3_Witness ==
    \E r \in RIDs :
        /\ pc[<<r, "avatar">>] = "returned" /\ ~handling[<<r, "avatar">>]
        /\ \E a \in avatar_rows(r) : a.status = "completed"
        /\ \E p \in plan_rows(r) : p.status = "pending"
        /\ pc[<<r, "plan">>] = "run"
        /\ Notifications(r) = 0

\* C4: when the avatar row and the plan row of a response both exist and both
\* ended completed, the notifier was called exactly once over the whole
\* execution, with the image payload and the plan HTML.
C4_BothCompletedOneCombinedEmail ==
    \A r \in RIDs :
        (/\ pc[<<r, "avatar">>] = "returned" /\ pc[<<r, "plan">>] = "returned"
         /\ \E a \in avatar_rows(r) : a.status = "completed"
         /\ \E p \in plan_rows(r) : p.status = "completed")
        => /\ Notifications(r) = 1
           /\ notifier_calls[r][1].avatar_data # NULL
           /\ notifier_calls[r][1].plan_content # NULL

\* Response r has one job only (the other was never created), its runner has
\* returned and its row is completed.
OnlyAvatarCompleted(r) ==
    /\ pc[<<r, "plan">>] = "idle" /\ spc[r] = "done" /\ plan_rows(r) = {}
    /\ pc[<<r, "avatar">>] = "returned"
    /\ \E a \in avatar_rows(r) : a.status = "completed"
OnlyPlanCompleted(r) ==
    /\ pc[<<r, "avatar">>] = "idle" /\ spc[r] = "done" /\ avatar_rows(r) = {}
    /\ pc[<<r, "plan">>] = "returned"
    /\ \E p \in plan_rows(r) : p.status = "completed"

C7_AllFailedNoNotifier ==
    [][\A t \in Threads :
          LET seen == {StatusOf(avatar[t]), StatusOf(select_plan(t[1]))}
          IN (Decides(t) /\ "failed" \in seen /\ seen \subseteq {"failed", "absent"})
             => CallsNothing]_vars

C7_Witness ==
    \E r \in RIDs :
        /\ pc[<<r, "avatar">>] = "returned" /\ pc[<<r, "plan">>] = "returned"
        /\ \E a \in avatar_rows(r) : a.status = "failed"
        /\ \E p \in plan_rows(r) : p.status = "failed"
        /\ disturbances = 0
        /\ Notifications(r) = 0

\* C8: an invocation that found neither an avatar row nor a plan row for the
\* response does not call the notifier.
C8_NoRowsNoNotifier ==
    [][\A t \in Threads :
          (Decides(t) /\ avatar[t] = {} /\ select_plan(t[1]) = {})
          => CallsNothing]_vars

C8_Witness ==
    \E r \in RIDs :
        /\ pc[<<r, "avatar">>] = "returned"
        /\ ~wants_plan(req[r])
        /\ avatar_rows(r) = {} /\ plan_rows(r) = {}
        /\ Notifications(r) = 0

\* C9: once every job row created for a response is terminal and at least one
\* of them is completed, send_combined_email is eventually called for it, in
\* every interleaving of the handler and the two runners.
C9_CompletedJobIsNotified ==
    \A r \in RIDs :
        (/\ job_rows(r) # {}
         /\ \A j \in job_rows(r) : j.status \in Terminal
         /\ \E j \in job_rows(r) : j.status = "completed")
        ~> (Notifications(r) > 0)

C9_Witness ==
    \E r \in RIDs :
        /\ pc[<<r, "avatar">>] = "returned" /\ pc[<<r, "plan">>] = "returned"
        /\ \E a \in avatar_rows(r) : a.status = "completed"
        /\ \E p \in plan_rows(r) : p.status = "failed"
        /\ Notifications(r) > 0
        /\ \A i \in 1..Notifications(r) : notifier_calls[r][i].plan_content = NULL

\* C10: a job row that is completed or failed keeps its status in every later
\* step: no runner rewrites a terminal row.
C10_TerminalStatusIsFinal ==
    [][/\ \A a \in avatars, b \in avatars' :
            (a.id = b.id /\ a.status \in Terminal) => b.status = a.status
       /\ \A p \in vibe_plans, q \in vibe_plans' :
            (p.id = q.id /\ p.status \in Terminal) => q.status = p.status]_vars

\* The statuses of the job rows runner t is responsible for.
own_statuses(t) ==
    IF t[2] = "avatar" THEN {a.status : a \in avatar_rows(t[1])}
    ELSE {p.status : p \in plan_rows(t[1])}
\* Runner t is inside an invocation of check_and_send_email.
InCoordinator(t) == pc[t] \in {"select_avatar", "select_plan"}

\* C11: no exception leaves generate_avatar_async or generate_plan_async, and a
\* runner that has ended has left its own job row completed or failed, whatever
\* fails inside it (a provider call, the coordinator, a store operation).
C11_RunnerCatchesEverything ==
    \A t \in Threads :
        /\ pc[t] # "raised"
        /\ pc[t] = "returned" => own_statuses(t) \subseteq Terminal

\* C12: a runner invokes check_and_send_email in the step that commits its own
\* terminal row write (completed or failed alike), it returns only out of that
\* invocation, and while the invocation runs its own row is never pending.
C12_CoordinatorAfterOwnTerminalWrite ==
    /\ [](\A t \in Threads : InCoordinator(t) => "pending" \notin own_statuses(t))
    /\ [][\A t \in Threads :
            /\ (pc[t] = "run" /\ pc'[t] = "select_avatar")
                  => (own_statuses(t)' \subseteq Terminal)
            /\ (pc[t] = "except" /\ pc'[t] = "select_avatar")
                  => (own_statuses(t)' \subseteq {"failed"})
            /\ ("pending" \in own_statuses(t) /\ "pending" \notin own_statuses(t)'
                  /\ own_statuses(t)' # {})
                  => pc'[t] = "select_avatar"
            /\ (pc[t] # "returned" /\ pc'[t] = "returned") => Decides(t)]_vars

C12_Witness ==
    \E r \in RIDs :
        /\ pc[<<r, "plan">>] = "returned" /\ handling[<<r, "plan">>]
        /\ own_statuses(<<r, "plan">>) = {"failed"}
        /\ pc[<<r, "avatar">>] = "select_plan" /\ ~handling[<<r, "avatar">>]
        /\ own_statuses(<<r, "avatar">>) = {"completed"}

\* The avatar rows stored for an email, and the avatar jobs ever created for it
\* (each creation starts the job's runner thread).
StoredFor(email) == Cardinality({a \in avatars : a.email = email})
CreatedFor(email) ==
    Cardinality({r \in DOMAIN req : req[r].email = email /\ pc[<<r, "avatar">>] # "idle"})

\* C13: at most 3 avatar rows are stored for any one email, in every reachable
\* state, also when submit requests of that email interleave their count query
\* and their insert.
C13_AtMostThreeRowsPerEmail == \A email \in QuotaEmails : StoredFor(email) <= 3

\* C14: a submit request whose count query finds 3 (or more) avatar rows for its
\* email inserts no avatar row, starts no avatar runner and reports
\* avatar_queued = false; rows and runners come from the insert step alone, which
\* only a count below 3 leads to.
C14_FullQuotaCreatesNoAvatar ==
    /\ [][\A r \in DOMAIN spc :
            (spc[r] = "count_avatars" /\ spc'[r] # "count_avatars"
               /\ StoredFor(req[r].email) >= 3)
            => (/\ spc'[r] \in {"insert_plan", "done"}
                /\ avatars' = avatars
                /\ ~avatar_queued(r)')]_vars
    /\ [][\A r \in DOMAIN spc :
            /\ (spc'[r] = "insert_avatar" /\ spc[r] # "insert_avatar")
                  => (spc[r] = "count_avatars" /\ StoredFor(req[r].email) < 3)
            /\ (spc[r] # "insert_avatar")
                  => (/\ avatar_rows(r)' \subseteq avatar_rows(r)
                      /\ avatar_queued(r)' = avatar_queued(r))]_vars

C14_Witness ==
    \E r \in DOMAIN spc :
        /\ wants_avatar(req[r]) /\ spc[r] = "done"
        /\ disturbances = 0
        /\ StoredFor(req[r].email) = 3
        /\ avatar_rows(r) = {} /\ ~avatar_queued(r)

Returned(fn) == fn_call.fn = fn /\ fn_ret # <<>>
\* The selfies base64.b64decode raises on, after the data-URI prefix is
\* stripped: their payload ends inside a group of four characters.
UndecodableSelfies ==
    {<<"d", ":", ",", "A">>, <<"d", ":", ",", "A", "A">>, <<"A", "A">>, <<"d", ":">>}
\* The call of generate_avatar_async has an image credential and a selfie
\* that decodes: the runner gets to its prompt step and its image step.
ImageStepReached ==
    /\ fn_call.fn = "generate_avatar_async" /\ fn_call.api_key
    /\ fn_call.selfie_base64 \notin UndecodableSelfies
\* One call of the image provider fails with a transient error, fails with
\* another error, or returns an image.
Transient(outcome) ==
    outcome.kind = "error" /\ outcome.error_str \cap RETRYABLE_ERRORS # {}
NonTransient(outcome) ==
    outcome.kind = "error" /\ outcome.error_str \cap RETRYABLE_ERRORS = {}
Succeeds(outcome) ==
    /\ outcome.kind = "response" /\ outcome.candidates # <<>>
    /\ \E i \in 1..Len(outcome.candidates[1]) : outcome.candidates[1][i].inline_data # NULL

\* C16: with a configured image provider and a selfie that decodes, 2 transient
\* failures then a success make exactly 3 provider calls and resolve the job
\* completed; 3 transient
\* failures make exactly 3 calls and resolve it failed; a first non-transient
\* failure makes exactly 1 call and resolves it failed; and no avatar job makes
\* more than 3 provider calls.
C16_RetryPolicy ==
    Returned("generate_avatar_async") =>
        LET script == fn_call.script
            job == fn_ret[1]
        IN /\ job.calls <= 3
           /\ (ImageStepReached /\ Transient(script[1]) /\ Transient(script[2])
                 /\ Succeeds(script[3]))
                => (job.calls = 3 /\ job.status = "completed")
           /\ (ImageStepReached /\ Transient(script[1]) /\ Transient(script[2])
                 /\ Transient(script[3]))
                => (job.calls = 3 /\ job.status = "failed")
           /\ (ImageStepReached /\ NonTransient(script[1]))
                => (job.calls = 1 /\ job.status = "failed")

C16_Witness ==
    /\ Returned("generate_avatar_async") /\ fn_call.api_key
    /\ Transient(fn_call.script[1]) /\ Transient(fn_call.script[2])
    /\ Succeeds(fn_call.script[3])
    /\ fn_ret[1].calls = 3 /\ fn_ret[1].status = "completed"

\* C17: a plan job whose wishlist text equals a key of PREGENERATED_PLANS
\* resolves completed with the canned HTML and without a call of the text
\* provider, whatever the provider would have answered.
C17_CannedPlanWithoutProvider ==
    (Returned("generate_plan_async") /\ fn_call.wishlist_app \in DOMAIN PREGENERATED_PLANS)
    => (/\ fn_ret[1].status = "completed"
        /\ fn_ret[1].plan_content = PREGENERATED_PLANS[fn_call.wishlist_app]
        /\ fn_ret[1].provider_calls = 0)

C17_Witness ==
    /\ Returned("generate_plan_async")
    /\ fn_call.wishlist_app = CannedKey /\ fn_call.client
    /\ fn_call.reply = Reply("text", Text(GeneratedPlan, MIN_PLAN_LENGTH, 0, TRUE))
    /\ fn_ret[1].plan_content = PREGENERATED_PLANS[CannedKey]

\* C18: without a text-generation credential every plan job, for every wishlist
\* text, resolves failed with VIBE_PLAN_ERROR_MESSAGE and without a provider call.
C18_NoCredentialAlwaysFails ==
    (Returned("generate_plan_async") /\ ~fn_call.client)
    => (/\ fn_ret[1].status = "failed"
        /\ fn_ret[1].error_message = VIBE_PLAN_ERROR_MESSAGE
        /\ fn_ret[1].provider_calls = 0)

\* C18 as amended: without a text-generation credential every plan job whose
\* wishlist text is no canned key resolves failed with VIBE_PLAN_ERROR_MESSAGE,
\* and no plan job makes a provider call.
C18_NoCredentialFailsUnlessCanned ==
    (Returned("generate_plan_async") /\ ~fn_call.client)
    => (/\ fn_ret[1].provider_calls = 0
        /\ fn_call.wishlist_app \notin DOMAIN PREGENERATED_PLANS
              => (/\ fn_ret[1].status = "failed"
                  /\ fn_ret[1].plan_content = NULL
                  /\ fn_ret[1].error_message = VIBE_PLAN_ERROR_MESSAGE))

C18_Witness ==
    /\ Returned("generate_plan_async") /\ ~fn_call.client
    /\ fn_call.wishlist_app = CustomWishlist
    /\ fn_call.reply = Reply("text", Text(GeneratedPlan, MIN_PLAN_LENGTH, 0, TRUE))
    /\ fn_ret[1].status = "failed"

\* C19: generate_vibe_plan returns (VIBE_PLAN_ERROR_MESSAGE, False) for an empty,
\* whitespace-only or None input, for a provider timeout or error, for a text of
\* trimmed length below 200 and for a text without '<h3>'; it returns success
\* only with a text of trimmed length at least 200 that contains '<h3>', and
\* then returns that trimmed text.
C19_VibePlanErrorOrValidText ==
    Returned("generate_vibe_plan") =>
        LET value == fn_ret[1].value
            wishlist_app == fn_call.wishlist_app
            reply == fn_call.reply
        IN /\ (\/ wishlist_app \in {NULL, "", " "}
               \/ reply.kind \in {"timeout", "api_error", "exception"}
               \/ reply.text.length < 200
               \/ ~reply.text.h3)
                => value = <<VIBE_PLAN_ERROR_MESSAGE, FALSE>>
           /\ value[2]
                => (/\ reply.kind = "text" /\ reply.text.length >= 200 /\ reply.text.h3
                    /\ value[1] = reply.text.body)
           /\ ~value[2] => value[1] = VIBE_PLAN_ERROR_MESSAGE

C19_Witness ==
    /\ Returned("generate_vibe_plan")
    /\ fn_call.reply = Reply("text", Text(GeneratedPlan, 200, 2, TRUE))
    /\ fn_ret[1].value = <<GeneratedPlan, TRUE>>

C21_ThreeTagsGetProviderPrompt ==
    (/\ Returned("generate_avatar_prompt") /\ fn_call.client
     /\ fn_call.universe \in UNIVERSE_VISUALS
     /\ fn_call.fuels.type = "list" /\ Len(fn_call.fuels.items) = 3
     /\ fn_call.element \in ELEMENT_VISUALS
     /\ fn_call.reply.kind = "text" /\ fn_call.reply.text.length > 50)
    => (/\ fn_ret[1] = fn_call.reply.text.body
        /\ fn_ret[1] # FALLBACK_AVATAR_PROMPT)

\* C22: send_combined_email never lets an exception out: without RESEND_API_KEY
\* it returns without a call of resend.Emails.send, with it it makes one call
\* and swallows that call's failure; and in no case does it change a job row.
C22_NotifierSwallowsEverything ==
    /\ [](Returned("send_combined_email") =>
            /\ ~fn_ret[1].raised
            /\ ~fn_call.api_key => fn_ret[1].sends = <<>>
            /\ fn_call.api_key => Len(fn_ret[1].sends) = 1)
    /\ [][(fn_call.fn = "send_combined_email" /\ fn_ret' # fn_ret)
            => (avatars' = avatars /\ vibe_plans' = vibe_plans)]_vars

C22_Witness ==
    /\ Returned("send_combined_email")
    /\ \E a \in avatars : a.status = "completed"
    /\ \E p \in vibe_plans : p.status = "completed"
    /\ fn_call.api_key /\ fn_call.send = "error"
    /\ fn_call.avatar_id # NoId /\ fn_call.plan_content # NULL
    /\ ~fn_ret[1].raised /\ Len(fn_ret[1].sends) = 1

C24_AvatarLinkInBody ==
    (Returned("send_combined_email") /\ fn_call.api_key /\ fn_call.avatar_id # NoId) =>
        /\ Len(fn_ret[1].sends) = 1
        /\ \E section \in fn_ret[1].sends[1].html.avatar_section :
              section.href = [app_url |-> APP_URL, path |-> "/avatar/",
                              avatar_id |-> fn_call.avatar_id]

\* C25: a second call of check_and_send_email for a response, made when no job
\* row has changed since the first, calls send_combined_email not at all, for
\* every combination of the states of the two rows.
C25_SecondCallSendsNothing ==
    (fn_call.fn = "check_and_send_email" /\ Len(fn_ret) = 2) => fn_ret[2] = <<>>

\* C26: while a runner has not come back from its provider call (it is still
\* there in every later state when the call hangs for ever), its row is pending
\* and no notification has been sent for its response, whatever the other job
\* has done (stated for executions without store fault and operator request).
C26_HungJobBlocksNotification ==
    \A t \in Threads :
        (pc[t] = "run" /\ disturbances = 0)
        => (own_statuses(t) = {"pending"} /\ Notifications(t[1]) = 0)

\* C27: a fault raised inside check_and_send_email (a store operation of its two
\* SELECTs, or the notifier) does not reach the except clause of the runner that
\* called it and does not leave the runner, and a runner whose row is already
\* completed or failed writes no other status to it.
C27_NotifyFaultNotPropagated ==
    [][\A t \in Threads :
          /\ InCoordinator(t) => pc'[t] \in {"select_avatar", "select_plan", "returned"}
          /\ (pc[t] = "except" /\ own_statuses(t) \cap Terminal # {})
                => own_statuses(t)' \subseteq own_statuses(t)]_vars

\* The first call of the image provider, among the MAX_RETRIES the runner may
\* make, that does not fail with a transient error (0: there is none).
FirstSettled(script) ==
    IF \A i \in 1..3 : Transient(script[i]) THEN 0
    ELSE CHOOSE i \in 1..3 :
            ~Transient(script[i]) /\ \A j \in 1..(i - 1) : Transient(script[j])

C30_PromptStepNeverAborts ==
    (Returned("generate_avatar_async") /\ ImageStepReached) =>
        LET job == fn_ret[1]
            settled == FirstSettled(fn_call.script)
        IN /\ job.calls >= 1
           /\ Len(job.prompt) = 1 /\ job.prompt[1] # ""
           /\ (job.status = "completed")
                <=> (settled # 0 /\ Succeeds(fn_call.script[settled]))
           /\ job.status \in {"completed", "failed"}

C30_Witness ==
    /\ Returned("generate_avatar_async") /\ fn_call.api_key
    /\ fn_call.preferences.keys = PreferenceKeys
    /\ fn_call.preferences.avatar_universe = "cyberpunk"
    /\ fn_call.client /\ fn_call.reply.kind = "api_error"
    /\ Succeeds(fn_call.script[1])
    /\ fn_ret[1].prompt = <<FALLBACK_AVATAR_PROMPT>>
    /\ fn_ret[1].calls = 1 /\ fn_ret[1].status = "completed"

\* C31: without an image credential, or with a selfie whose payload (what
\* follows the data-URI prefix, if there is one) base64.b64decode raises on, the
\* try body of the avatar runner resolves the job failed with a non-empty error
\* text and makes no call of the image provider; and only then does it make none.
C31_NoCredentialOrBadSelfieFails ==
    Returned("generate_avatar_async") =>
        LET job == fn_ret[1] IN
        /\ (~fn_call.api_key \/ fn_call.selfie_base64 \in UndecodableSelfies)
              => /\ job.status = "failed"
                 /\ Len(job.error) = 1 /\ job.error[1] # {}
                 /\ job.calls = 0 /\ job.image = <<>>
        /\ job.calls = 0
              => (~fn_call.api_key \/ fn_call.selfie_base64 \in UndecodableSelfies)

C31_Witness ==
    /\ Returned("generate_avatar_async") /\ fn_call.api_key
    /\ fn_call.selfie_base64 = <<"d", ":", ",", "A", "A">>
    /\ Succeeds(fn_call.script[1])
    /\ fn_ret[1].status = "failed" /\ fn_ret[1].calls = 0
    /\ fn_ret[1].error = <<{"Incorrect", "padding"}>>

\* What is stored for the bytes of a generated image: their base64 text.
Base64Of(data) == IF data = "png-A" THEN "base64-image" ELSE "base64-image-B"

\* C32: when the response the image provider returns (on the first call that
\* does not fail transiently) has no candidates or no part with an image
\* payload, the avatar job resolves failed with a non-empty error text and no
\* image; when it has image payloads, the job resolves completed and the image
\* stored is the base64 text of the first of them in the order of the parts.
C32_FirstImageOrFailure ==
    (Returned("generate_avatar_async") /\ ImageStepReached
     /\ FirstSettled(fn_call.script) # 0
     /\ fn_call.script[FirstSettled(fn_call.script)].kind = "response") =>
        LET job == fn_ret[1]
            candidates == fn_call.script[FirstSettled(fn_call.script)].candidates
            parts == IF candidates = <<>> THEN <<>> ELSE candidates[1]
            images == {i \in 1..Len(parts) : parts[i].inline_data # NULL}
        IN /\ images = {}
                => /\ job.status = "failed" /\ job.image = <<>>
                   /\ Len(job.error) = 1 /\ job.error[1] # {}
           /\ \A i \in images :
                (\A j \in images : i <= j)
                => /\ job.status = "completed" /\ job.error = <<>>
                   /\ job.image = <<Base64Of(parts[i].inline_data)>>

C32_Witness ==
    /\ Returned("generate_avatar_async") /\ ImageStepReached
    /\ Transient(fn_call.script[1])
    /\ fn_call.script[2].kind = "response"
    /\ Len(fn_call.script[2].candidates) = 1
    /\ Len(fn_call.script[2].candidates[1]) = 3
    /\ fn_call.script[2].candidates[1][1].inline_data = NULL
    /\ fn_call.script[2].candidates[1][2].inline_data = "png-B"
    /\ fn_call.script[2].candidates[1][3].inline_data = "png-A"
    /\ fn_ret[1].calls = 2 /\ fn_ret[1].status = "completed"
    /\ fn_ret[1].image = <<"base64-image-B">>

\* C33: in every state each avatar row and each plan row is in one of three
\* shapes: pending without output, completed with its output present, or
\* failed with an error text present and without output.
C33_RowStateInvariant ==
    /\ \A a \in avatars :
          /\ a.status = "pending" => a.image_data = NULL
          /\ a.status = "completed" => a.image_data \notin {NULL, ""}
          /\ a.status = "failed" =>
                (a.error_message \notin {NULL, ""} /\ a.image_data = NULL)
    /\ \A p \in vibe_plans :
          /\ p.status = "pending" => p.plan_content = NULL
          /\ p.status = "completed" => p.plan_content \notin {NULL, ""}
          /\ p.status = "failed" =>
                (p.error_message \notin {NULL, ""} /\ p.plan_content = NULL)

\* C34: a step of a runner thread (of its try body, of its except clause, or of
\* check_and_send_email and send_combined_email running in it) leaves every row
\* of the other kind and every row of its kind other than its own as it is, and
\* a step inside check_and_send_email leaves every row as it is.
C34_RunnerWritesOwnRowOnly ==
    [][\A t \in DOMAIN pc :
          (pc[t] # "idle" /\ pc'[t] # pc[t]) =>
             /\ t[2] = "avatar" =>
                   /\ vibe_plans' = vibe_plans
                   /\ {a \in avatars' : a.id # t[1]} = {a \in avatars : a.id # t[1]}
             /\ t[2] = "plan" =>
                   /\ avatars' = avatars
                   /\ {p \in vibe_plans' : p.id # t[1]} = {p \in vibe_plans : p.id # t[1]}
             /\ pc[t] \in {"select_avatar", "select_plan"} =>
                   (avatars' = avatars /\ vibe_plans' = vibe_plans)]_vars

\* Runners of response 1 have written their rows while response 2 has its two
\* rows, untouched.
C34_Witness ==
    /\ \E a \in avatars : a.id = 1 /\ a.status = "failed"
    /\ \E p \in vibe_plans : p.id = 1 /\ p.status = "completed"
    /\ \E a \in avatars : a.id = 2 /\ a.status = "pending"
    /\ \E p \in vibe_plans : p.id = 2 /\ p.status = "pending"
    /\ pc[<<1, "avatar">>] = "returned" /\ pc[<<1, "plan">>] = "returned"

\* The request served after check_email has answered: the last one there is
\* room for; it has been read once next_id has reached it.
Following == CHOOSE r \in DOMAIN spc : \A x \in DOMAIN spc : x <= r
FollowingServed == fn_call.fn = "check_email" /\ next_id = Following
\* The avatar rows the email of that request owned before it was served.
RowsBefore(email) == {a \in avatars : a.email = email /\ a.id # Following}

\* C35: a submit request creates an avatar row, pending, exactly when it has an
\* email, a selfie and fewer than 3 avatar rows stored for the email; it creates
\* a plan row, pending, exactly when it has an email and a wishlist text that is
\* not empty once trimmed; avatar_queued and plan_queued say whether the row was
\* created; and a runner is started only with its row in the store.
C35_SubmitCreatesJobs ==
    /\ FollowingServed =>
          \A k \in Kinds :
             pc[<<Following, k>>] # "idle" =>
                \E row \in (IF k = "avatar" THEN avatars ELSE vibe_plans) :
                   row.id = Following /\ row.response_id = Following
    /\ (FollowingServed /\ spc[Following] = "done") =>
          LET q == req[Following]
              own_avatars == {a \in avatars : a.response_id = Following}
              own_plans == {p \in vibe_plans : p.response_id = Following}
          IN /\ (own_avatars # {}) <=>
                   (/\ q.email # "" /\ q.selfie_data # ""
                    /\ Cardinality(RowsBefore(q.email)) < 3)
             /\ (own_plans # {}) <=> (q.email # "" /\ q.wishlist_app \notin {"", " "})
             /\ \A row \in own_avatars \cup own_plans :
                   row.status = "pending" /\ row.email = q.email
             /\ Cardinality(own_avatars) <= 1 /\ Cardinality(own_plans) <= 1
             /\ avatar_queued(Following) <=> (own_avatars # {})
             /\ plan_queued(Following) <=> (own_plans # {})

\* Served with two rows stored for its email, a request with a selfie and a
\* wishlist has created both rows.
C35_Witness ==
    /\ FollowingServed /\ spc[Following] = "done"
    /\ Cardinality(RowsBefore(req[Following].email)) = 2
    /\ \E a \in avatars : a.response_id = Following /\ a.status = "pending"
    /\ \E p \in vibe_plans : p.response_id = Following /\ p.status = "pending"
    /\ avatar_queued(Following) /\ plan_queued(Following)

\* C36: a delete_response request for a response that has an avatar row and a
\* plan row leaves neither the response row nor any of its avatar and plan
\* rows; and in every state the response_id of every avatar row and of every
\* plan row is the id of a stored response.
C36_DeleteResponseCascades ==
    /\ [](\A row \in avatars \cup vibe_plans :
             \E x \in responses : x.id = row.response_id)
    /\ [][\A r \in DOMAIN spc :
             (/\ delete_response(r)
              /\ \E a \in avatars : a.response_id = r
              /\ \E p \in vibe_plans : p.response_id = r)
             => /\ \A x \in responses' : x.id # r
                /\ \A a \in avatars' : a.response_id # r
                /\ \A p \in vibe_plans' : p.response_id # r]_vars

\* The error texts a job row can hold: the fixed text of generate_vibe_plan and
\* the text of an exception.
ErrorTexts == {VIBE_PLAN_ERROR_MESSAGE, ExceptionText}

\* C37: no call of send_combined_email carries an error text, neither the
\* error_message stored in a row nor the text of an exception, as its avatar
\* data or its plan content; and a call made by a runner that found the avatar
\* row failed carries no avatar at all (no id, no data).
C37_NoErrorDetailInNotification ==
    /\ [](\A r \in DOMAIN notifier_calls : \A i \in DOMAIN notifier_calls[r] :
             LET args == notifier_calls[r][i] IN
             /\ args.plan_content \notin ErrorTexts
             /\ args.avatar_data \notin ErrorTexts
             /\ \A row \in avatars \cup vibe_plans :
                   row.error_message # NULL =>
                      /\ args.plan_content # row.error_message
                      /\ args.avatar_data # row.error_message)
    /\ [][\A t \in DOMAIN pc :
             (/\ pc[t] = "select_plan" /\ pc'[t] # pc[t]
              /\ Len(notifier_calls'[t[1]]) > Len(notifier_calls[t[1]])
              /\ \E a \in avatar[t] : a.status = "failed")
             => LET args == notifier_calls'[t[1]][Len(notifier_calls'[t[1]])] IN
                args.avatar_id = NoId /\ args.avatar_data = NULL]_vars

\* A notification was sent for a response whose avatar job failed: it carries
\* the plan and no avatar, while the avatar row holds the text of the exception.
C37_Witness ==
    /\ \E a \in avatars : a.response_id = 1 /\ a.status = "failed"
                          /\ a.error_message = ExceptionText
    /\ Len(notifier_calls[1]) >= 1
    /\ notifier_calls[1][1].avatar_id = NoId
    /\ notifier_calls[1][1].avatar_data = NULL
    /\ notifier_calls[1][1].plan_content = GeneratedPlan

\* What check_and_send_email has to pass to send_combined_email for a response
\* whose avatar row and plan row were read as `a` and `p` (sets: {} is no row):
\* nothing while one of them is pending, nothing when neither is completed, and
\* otherwise the outputs of the completed ones.
DecisionFor(a, p, email) ==
    IF (\E x \in a : x.status = "pending") \/ (\E x \in p : x.status = "pending")
    THEN <<>>
    ELSE IF ~(\E x \in a : x.status = "completed")
            /\ ~(\E x \in p : x.status = "completed" /\ x.plan_content \notin {NULL, ""})
         THEN <<>>
         ELSE <<[email |-> email,
                 avatar_id |-> IF \E x \in a : x.status = "completed"
                               THEN (CHOOSE x \in a : TRUE).id ELSE NoId,
                 avatar_data |-> IF \E x \in a : x.status = "completed"
                                 THEN (CHOOSE x \in a : TRUE).image_data ELSE NULL,
                 plan_content |-> IF \E x \in p : x.status = "completed"
                                  THEN (CHOOSE x \in p : TRUE).plan_content ELSE NULL]>>

\* C38: check_and_send_email running for response R reads the avatar row and the
\* plan row whose response_id is R and no other, and what it passes to
\* send_combined_email is determined by these two rows and the email of R's own
\* request, whatever rows other responses (of the same email or not) have.
C38_ResponsesIsolated ==
    [][\A t \in DOMAIN pc :
          LET R == t[1]
              own_avatar == {[id |-> x.id, status |-> x.status, image_data |-> x.image_data] :
                                x \in {y \in avatars : y.response_id = R}}
              own_plan == {[id |-> x.id, status |-> x.status, plan_content |-> x.plan_content] :
                                x \in {y \in vibe_plans : y.response_id = R}}
          IN /\ (pc[t] = "select_avatar" /\ pc'[t] = "select_plan")
                   => (avatar'[t] = own_avatar /\ Cardinality(own_avatar) <= 1)
             /\ (pc[t] = "select_plan" /\ pc'[t] # pc[t] /\ disturbances' = disturbances)
                   => /\ Cardinality(own_plan) <= 1
                      /\ notifier_calls'[R] =
                            notifier_calls[R] \o DecisionFor(avatar[t], own_plan, req[R].email)
                      /\ \A r \in DOMAIN notifier_calls :
                            r # R => notifier_calls'[r] = notifier_calls[r]]_vars

\* Response 1 was notified with its two outputs while response 2, of the same
\* email, has an avatar row still pending and a failed plan row.
C38_Witness ==
    /\ Len(notifier_calls[1]) >= 1
    /\ notifier_calls[1][1].avatar_id = 1
    /\ notifier_calls[1][1].plan_content = GeneratedPlan
    /\ \E a \in avatars : a.response_id = 2 /\ a.email = QuotaEmail /\ a.status = "pending"
    /\ \E p \in vibe_plans : p.response_id = 2 /\ p.status = "failed"
    /\ notifier_calls[2] = <<>>

\* The address the email of a request stands for, whatever its case and the
\* blanks around it.
AddressOf(email) ==
    IF email \in {"", " "} THEN ""
    ELSE IF email \in {"a@x.com", " A@X.com "} THEN "a@x.com" ELSE "b@x.com"
\* The avatar rows stored for an address when check_email answered: the rows of
\* the requests before the one that follows it.
RowsAtCheck(address) == {a \in avatars : a.email = address /\ a.id # Following}

\* C39: for a non-empty email check_email answers allowed = true exactly when
\* the avatar rows stored for the address are fewer than 3, with remaining =
\* 3 - their number; for an empty or blank email it answers allowed = false; and
\* the submit request that follows with the same address and a selfie, nothing
\* else having touched the store, creates an avatar job exactly when the answer
\* was allowed = true.
C39_CheckEmailAgreesWithSubmit ==
    Returned("check_email") =>
        LET address == AddressOf(fn_call.email)
            count == Cardinality(RowsAtCheck(address))
            answer == fn_ret[1]
        IN /\ address # "" =>
                 /\ answer.allowed <=> count < 3
                 /\ answer.remaining = <<3 - count>>
           /\ address = "" => (~answer.allowed /\ answer.remaining = <<>>)
           /\ (/\ next_id = Following /\ spc[Following] = "done"
               /\ req[Following].email = address
               /\ req[Following].selfie_data # "")
                 => ((\E a \in avatars : a.response_id = Following /\ a.status = "pending")
                        <=> answer.allowed)

\* check_email refused an address with 3 rows, given in another spelling, and
\* the submit that followed created no avatar job.
C39_Witness ==
    /\ Returned("check_email") /\ fn_call.email = " A@X.com "
    /\ fn_ret[1] = [allowed |-> FALSE, remaining |-> <<0>>,
                    message |-> "Maximum avatars reached for this email"]
    /\ next_id = Following /\ spc[Following] = "done"
    /\ req[Following].email = "a@x.com" /\ req[Following].selfie_data # ""
    /\ ~\E a \in avatars : a.response_id = Following
    /\ Cardinality({a \in avatars : a.email = "a@x.com"}) = 3

====
